---- MODULE Spec2Model ----
(***************************************************************************)
(* A model of snapflow's change tracker (SimpleChangeTracker in            *)
(* src/services/TimerService.ts), of the ignore filter it consults         *)
(* (src/services/IgnorePatterns.ts) and of the change log it keeps         *)
(* (.snapflow/changelog.jsonl).                                            *)
(*                                                                         *)
(* Representation.                                                         *)
(*   - A text file is the sequence of its lines (what split('\n') yields); *)
(*     a line is a token, the number 100*version + index.                  *)
(*   - The live-state Map is a sequence of entries in insertion order, as  *)
(*     a JavaScript Map iterates.                                          *)
(*   - The change log is the sequence of the lines of changelog.jsonl;     *)
(*     a line is a serialized record, garbage, or blank.                   *)
(*   - Date.now() reads the clock `now`, counted in whole days so that     *)
(*     thirty days stay inside TLC's integers.                             *)
(*   - An optional value (T | null) is a sequence of length 0 or 1.        *)
(***************************************************************************)
EXTENDS Integers, Sequences, FiniteSets, TLC

VARIABLES
    fileStates,   \* SimpleChangeTracker.fileStates: seq of [path, lines, timestamp, dirtyLines]
    patterns,     \* IgnorePatterns.patterns: seq of pattern strings
    changeLog,    \* lines of .snapflow/changelog.jsonl
    logFails,     \* TRUE when reads and writes of the change log throw
    disk,         \* path -> [state, lines]: the workspace files
    now,          \* the clock read by Date.now()
    ret,          \* the last call: [op, path, lo, hi, had, val]; op = "none" after an environment step
    prevStop,     \* path of the stopTracking call that immediately preceded the last call, else ""
    appended,     \* the records appended to the log since construction or the last rewrite
    nSaves,       \* how many records were appended since construction
    timerService, \* TimerService: [isRunning, startTime, elapsedSeconds, interval, onTick]
    intervals,    \* the handles of the intervals scheduled in the event loop
    pending,      \* the suspended async calls of the extension, oldest first
    shown,        \* what the user sees: [response, message, kind]
    gitDiff,      \* GitService.getDiffFromSnaplog in flight: [pc, n, commitsOffset, success, stdout, attempts]
    nToggles      \* how many start/stop commands ran since activation

extVars == <<timerService, intervals, pending, shown, gitDiff, nToggles>>

vars == <<fileStates, patterns, changeLog, logFails, disk, now, ret, prevStop, appended, nSaves,
          timerService, intervals, pending, shown, gitDiff, nToggles>>

----------------------------------------------------------------------------
(* Bounds and program constants *)

MaxSaves == 1            \* cap on the records appended in one run of Spec
LogMaxSaves == 2         \* cap on the records appended in one run of SpecLog
FilterMaxSaves == 2      \* cap on the records appended in one run of SpecFilter
ResumeMaxSaves == 1      \* cap on the records appended in one run of SpecResume
SessionMaxSaves == 2     \* cap on the records appended in one run of SpecSession
BookMaxSaves == 2        \* cap on the records appended in one run of SpecBook
StopwatchMaxSaves == 2   \* cap on the records appended in one run of SpecStopwatch
MaxToggles == 3          \* cap on the start/stop commands in one run of SpecStopwatch
MaxOffset == 3           \* largest nCommitsFallback given to getDiffFromSnaplog (its default)

contextLines == 2        \* stopTracking: context margin
DefaultLimit == 100      \* getRecentChanges(limit = 100)
DefaultDaysToKeep == 30  \* cleanupOldChanges(daysToKeep = 30)
MsPerDay == 1            \* 24 * 60 * 60 * 1000 ms, in the clock's unit of one day

----------------------------------------------------------------------------
(* Sequences, JavaScript style *)

Min2(a, b) == IF a <= b THEN a ELSE b
Max2(a, b) == IF a >= b THEN a ELSE b

SetMin(S) == CHOOSE x \in S : \A y \in S : x <= y
SetMax(S) == CHOOSE x \in S : \A y \in S : x >= y

\* Array.prototype.slice(start, end) for 0 <= start, with end clamped to the length
Slice(s, start, end) ==
    LET hi == Min2(Max2(end, 0), Len(s))
        lo == Min2(start, Len(s))
    IN  IF lo >= hi THEN << >> ELSE SubSeq(s, lo + 1, hi)

\* Array.prototype.slice(-n): the last n elements; slice(-0) is slice(0), the whole array
SliceLast(s, n) ==
    IF n = 0 THEN s
    ELSE SubSeq(s, Max2(Len(s) - n, 0) + 1, Len(s))

\* Array.from(set).sort((a, b) => a - b)
RECURSIVE SortedSeq(_)
SortedSeq(S) ==
    IF S = {} THEN << >>
    ELSE LET m == SetMin(S) IN <<m>> \o SortedSeq(S \ {m})

Range(s) == {s[i] : i \in 1..Len(s)}

----------------------------------------------------------------------------
(* Paths, glob patterns and minimatch *)

FileA   == "a.ts"
FileB   == "b.ts"
FileLog == "session.log"
FileTxt == "session.log.txt"
FileChangelog == ".snapflow/changelog.jsonl"
FileSnaplog == ".snapflow/snaplog.jsonl"
FileIgnore == ".snapflow/.snapflowignore"

Paths == {FileA, FileB, FileLog, FileTxt, FileChangelog, FileSnaplog, FileIgnore}

\* path.relative(cwd, filePath), as characters
CharsOf(p) ==
    CASE p = FileA   -> <<"a", ".", "t", "s">>
      [] p = FileB   -> <<"b", ".", "t", "s">>
      [] p = FileLog -> <<"s", "e", "s", "s", "i", "o", "n", ".", "l", "o", "g">>
      [] p = FileTxt -> <<"s", "e", "s", "s", "i", "o", "n", ".", "l", "o", "g", ".", "t", "x", "t">>
      [] p = FileChangelog ->
            <<".", "s", "n", "a", "p", "f", "l", "o", "w", "/",
              "c", "h", "a", "n", "g", "e", "l", "o", "g", ".", "j", "s", "o", "n", "l">>
      [] p = FileSnaplog ->
            <<".", "s", "n", "a", "p", "f", "l", "o", "w", "/",
              "s", "n", "a", "p", "l", "o", "g", ".", "j", "s", "o", "n", "l">>
      [] p = FileIgnore ->
            <<".", "s", "n", "a", "p", "f", "l", "o", "w", "/",
              ".", "s", "n", "a", "p", "f", "l", "o", "w", "i", "g", "n", "o", "r", "e">>

\* the patterns that can match a path of the model, as characters
GlobOf(g) ==
    CASE g = "*.log"           -> <<"*", ".", "l", "o", "g">>
      [] g = "*.jsonl"         -> <<"*", ".", "j", "s", "o", "n", "l">>
      [] g = "*.ts"            -> <<"*", ".", "t", "s">>
      [] g = ".snapflow/"      -> <<".", "s", "n", "a", "p", "f", "l", "o", "w", "/">>
      [] g = ".snapflow/*"     -> <<".", "s", "n", "a", "p", "f", "l", "o", "w", "/", "*">>
      [] g = "changelog.jsonl" -> <<"c", "h", "a", "n", "g", "e", "l", "o", "g", ".", "j", "s", "o", "n", "l">>
      [] g = "snaplog.jsonl"   -> <<"s", "n", "a", "p", "l", "o", "g", ".", "j", "s", "o", "n", "l">>
      [] g = "a.ts"            -> <<"a", ".", "t", "s">>

KnownGlobs == {"*.log", "*.jsonl", "*.ts", ".snapflow/", ".snapflow/*",
               "changelog.jsonl", "snaplog.jsonl", "a.ts"}

\* split on "/"
RECURSIVE SplitSlash(_)
SplitSlash(s) ==
    IF \A i \in 1..Len(s) : s[i] # "/" THEN <<s>>
    ELSE LET k == CHOOSE i \in 1..Len(s) : s[i] = "/" /\ \A j \in 1..(i - 1) : s[j] # "/"
         IN  <<SubSeq(s, 1, k - 1)>> \o SplitSlash(SubSeq(s, k + 1, Len(s)))

IsMagic(g) == \E i \in 1..Len(g) : g[i] \in {"*", "?"}

\* one path segment against one pattern segment: * is any run of characters, ? is one
RECURSIVE GlobChars(_, _)
GlobChars(f, g) ==
    IF g = << >> THEN f = << >>
    ELSE IF Head(g) = "*"
         THEN \E k \in 0..Len(f) : GlobChars(SubSeq(f, k + 1, Len(f)), Tail(g))
    ELSE IF Head(g) = "?"
         THEN f # << >> /\ GlobChars(Tail(f), Tail(g))
    ELSE f # << >> /\ Head(f) = Head(g) /\ GlobChars(Tail(f), Tail(g))

\* a magic segment matches no empty segment and, unless it starts with a dot
\* itself, no segment that starts with a dot
SegMatch(f, g) ==
    IF IsMagic(g)
    THEN /\ f # << >>
         /\ (Head(f) = "." => Head(g) = ".")
         /\ GlobChars(f, g)
    ELSE f = g

\* minimatch(relativePath, pattern) with default options, for patterns made of
\* literals, * and ?: segment by segment, the same number of segments
Minimatch(f, g) ==
    LET fs == SplitSlash(f)
        gs == SplitSlash(g)
    IN  /\ Len(fs) = Len(gs)
        /\ \A i \in 1..Len(fs) : SegMatch(fs[i], gs[i])

MatchTable == [p \in Paths |-> [g \in KnownGlobs |-> Minimatch(CharsOf(p), GlobOf(g))]]

\* minimatch(relativePath, pattern) for a pattern of the rule set.  The
\* patterns outside KnownGlobs (names of other files and directories, other
\* extensions) match no path of the model
Matches(p, g) == g \in KnownGlobs /\ MatchTable[p][g]

\* IgnorePatterns.getDefaultPatterns
getDefaultPatterns ==
    <<
     ".env*", ".snapflow/", ".snapflow/*", ".snapflowignore",
     "changelog.jsonl", "snaplog.jsonl", "*.jsonl", "node_modules/", "dist/",
     "build/", "out/", "*.min.js", "*.min.css", "*.log", "*.tmp", "*.temp",
     ".DS_Store", "Thumbs.db", ".vscode/", ".idea/", "*.swp", "*.swo", "*~",
     ".git/", "coverage/", "*.lcov", ".nyc_output/", "package-lock.json",
     "yarn.lock", "pnpm-lock.yaml", "*.vsix", "webpack.config.js",
     "tsconfig.json", "tailwind.config.js", "postcss.config.js",
     "eslint.config.mjs"
    >>

\* shouldIgnore with the return inside the loop taken on the first pattern
shouldIgnoreFirstOnly(pats, p) == pats # << >> /\ Matches(p, pats[1])

\* IgnorePatterns.shouldIgnore
shouldIgnore(pats, p) == \E i \in 1..Len(pats) : Matches(p, pats[i])

\* vscode.TextDocument.fileName is the file system path of the document, the
\* same string as document.uri.fsPath: the workspace root followed by the
\* relative path
DocumentFileName(p) == <<"/", "w", "/">> \o CharsOf(p)

\* the whole test of recordChange
IsIgnored(pats, p) ==
    \/ shouldIgnore(pats, p)
    \/ DocumentFileName(p) = GlobOf("changelog.jsonl")
    \/ DocumentFileName(p) = GlobOf("snaplog.jsonl")

----------------------------------------------------------------------------
(* Files *)

\* the text of version v with n lines
Text(v, n) == [i \in 1..n |-> 100 * v + (i - 1)]

Missing    == [state |-> "missing", lines |-> << >>]
Unreadable == [state |-> "unreadable", lines |-> << >>]
File(ls)   == [state |-> "file", lines |-> ls]

\* a file that is not there and cannot be created (its directory is read-only)
Blocked    == [state |-> "blocked", lines |-> << >>]

\* fs.existsSync
existsSync(d, p) == d[p].state \notin {"missing", "blocked"}
\* fs.readFileSync succeeds
readable(d, p) == d[p].state = "file"

----------------------------------------------------------------------------
(* The live-state Map *)

MapHas(m, p) == \E i \in 1..Len(m) : m[i].path = p
MapGet(m, p) == m[CHOOSE i \in 1..Len(m) : m[i].path = p]
\* Map.set that adds an entry whether the key is there or not
MapSetPush(m, p, e) == Append(m, e)

MapSet(m, p, e) ==
    IF MapHas(m, p)
    THEN [i \in 1..Len(m) |-> IF m[i].path = p THEN e ELSE m[i]]
    ELSE Append(m, e)
MapDelete(m, p) == SelectSeq(m, LAMBDA e : e.path # p)
MapKeys(m) == [i \in 1..Len(m) |-> m[i].path]

\* the FileState of startTracking
NewFileState(p, ls, t) == [path |-> p, lines |-> ls, timestamp |-> t, dirtyLines |-> {}]

----------------------------------------------------------------------------
(* The change log *)

\* JSON.stringify(summary): one line of text holding the record
Stringify(r) == [kind |-> "json", rec |-> <<r>>]
\* a line that is no JSON, and the empty line
GarbageLine == [kind |-> "garbage", rec |-> << >>]
BlankLine == [kind |-> "blank", rec |-> << >>]

\* JSON.parse(line) in its try/catch: the record, or null
Parse(line) == IF line.kind = "json" THEN line.rec ELSE << >>

RECURSIVE Flatten(_)
Flatten(ss) == IF ss = << >> THEN << >> ELSE Head(ss) \o Flatten(Tail(ss))

\* the records a log holds, in file order
Records(log) == Flatten([i \in 1..Len(log) |-> Parse(log[i])])

\* getRecentChanges taking the first lines, slice(0, limit)
getRecentChangesOldest(log, fails, limit) ==
    IF fails THEN << >>
    ELSE LET lines == SelectSeq(log, LAMBDA l : l.kind # "blank")
             recentLines == Slice(lines, 0, limit)
         IN  Flatten([i \in 1..Len(recentLines) |-> Parse(recentLines[i])])

\* SimpleChangeTracker.getRecentChanges
getRecentChanges(log, fails, limit) ==
    IF fails THEN << >>
    ELSE LET lines == SelectSeq(log, LAMBDA l : l.kind # "blank")
             recentLines == SliceLast(lines, limit)
         IN  Flatten([i \in 1..Len(recentLines) |-> Parse(recentLines[i])])

\* saveChangeSummary that writes the record in front of the log
saveChangeSummaryPrepend(log, fails, summary) ==
    IF fails THEN log ELSE <<Stringify(summary)>> \o log

\* SimpleChangeTracker.saveChangeSummary
saveChangeSummary(log, fails, summary) ==
    IF fails THEN log ELSE Append(log, Stringify(summary))

\* SimpleChangeTracker.cleanupOldChanges: the log it leaves
cleanupOldChanges(log, fails, t, daysToKeep) ==
    IF fails THEN log
    ELSE LET cutoffTime == t - daysToKeep * MsPerDay
             allChanges == getRecentChanges(log, fails, DefaultLimit)
             recentChanges == SelectSeq(allChanges, LAMBDA c : c.endTime >= cutoffTime)
         IN  IF recentChanges = << >> THEN <<BlankLine>>
             ELSE [i \in 1..Len(recentChanges) |-> Stringify(recentChanges[i])]

----------------------------------------------------------------------------
(* stopTracking *)

\* the summary without the context margin after the last dirty line
ChangeSummaryNoContextAfter(p, st, currentLines, t) ==
    LET dirtyLines == SortedSeq(st.dirtyLines)
        firstDirtyLine == dirtyLines[1]
        lastDirtyLine == dirtyLines[Len(dirtyLines)]
        startLine == Max2(0, firstDirtyLine - contextLines)
        endLine == Min2(Len(currentLines) - 1, lastDirtyLine)
    IN  [filePath |-> p,
         startTime |-> st.timestamp,
         endTime |-> t,
         startLine |-> startLine,
         endLine |-> endLine,
         before |-> Slice(st.lines, startLine, endLine + 1),
         after |-> Slice(currentLines, startLine, endLine + 1),
         changedLines |-> dirtyLines]

\* the summary with both sections cut from the content read at the stop
ChangeSummaryBeforeFromCurrent(p, st, currentLines, t) ==
    LET dirtyLines == SortedSeq(st.dirtyLines)
        firstDirtyLine == dirtyLines[1]
        lastDirtyLine == dirtyLines[Len(dirtyLines)]
        startLine == Max2(0, firstDirtyLine - contextLines)
        endLine == Min2(Len(currentLines) - 1, lastDirtyLine + contextLines)
    IN  [filePath |-> p,
         startTime |-> st.timestamp,
         endTime |-> t,
         startLine |-> startLine,
         endLine |-> endLine,
         before |-> Slice(currentLines, startLine, endLine + 1),
         after |-> Slice(currentLines, startLine, endLine + 1),
         changedLines |-> dirtyLines]

\* a summary whose two times are exchanged
ChangeSummarySwappedTimes(p, st, currentLines, t) ==
    LET dirtyLines == SortedSeq(st.dirtyLines)
        firstDirtyLine == dirtyLines[1]
        lastDirtyLine == dirtyLines[Len(dirtyLines)]
        startLine == Max2(0, firstDirtyLine - contextLines)
        endLine == Min2(Len(currentLines) - 1, lastDirtyLine + contextLines)
    IN  [filePath |-> p,
         startTime |-> t,
         endTime |-> st.timestamp,
         startLine |-> startLine,
         endLine |-> endLine,
         before |-> Slice(st.lines, startLine, endLine + 1),
         after |-> Slice(currentLines, startLine, endLine + 1),
         changedLines |-> dirtyLines]

\* the ChangeSummary of stopTracking
ChangeSummaryOf(p, st, currentLines, t) ==
    LET dirtyLines == SortedSeq(st.dirtyLines)
        firstDirtyLine == dirtyLines[1]
        lastDirtyLine == dirtyLines[Len(dirtyLines)]
        startLine == Max2(0, firstDirtyLine - contextLines)
        endLine == Min2(Len(currentLines) - 1, lastDirtyLine + contextLines)
    IN  [filePath |-> p,
         startTime |-> st.timestamp,
         endTime |-> t,
         startLine |-> startLine,
         endLine |-> endLine,
         before |-> Slice(st.lines, startLine, endLine + 1),
         after |-> Slice(currentLines, startLine, endLine + 1),
         changedLines |-> dirtyLines]

\* stopTracking that returns null for a clean state without deleting it
stopTrackingKeepClean(m, log, fails, d, t, p) ==
    IF ~MapHas(m, p)
    THEN [m |-> m, log |-> log, val |-> << >>]
    ELSE IF ~existsSync(d, p) \/ ~readable(d, p)
    THEN [m |-> MapDelete(m, p), log |-> log, val |-> << >>]
    ELSE IF MapGet(m, p).dirtyLines = {}
    THEN [m |-> m, log |-> log, val |-> << >>]
    ELSE LET changeSummary == ChangeSummaryOf(p, MapGet(m, p), d[p].lines, t)
         IN  [m |-> MapDelete(m, p),
              log |-> saveChangeSummary(log, fails, changeSummary),
              val |-> <<changeSummary>>]

\* stopTracking that, after saving, clears the dirty set instead of deleting the state
stopTrackingResetSaved(m, log, fails, d, t, p) ==
    IF ~MapHas(m, p)
    THEN [m |-> m, log |-> log, val |-> << >>]
    ELSE IF ~existsSync(d, p) \/ ~readable(d, p)
    THEN [m |-> MapDelete(m, p), log |-> log, val |-> << >>]
    ELSE IF MapGet(m, p).dirtyLines = {}
    THEN [m |-> MapDelete(m, p), log |-> log, val |-> << >>]
    ELSE LET changeSummary == ChangeSummaryOf(p, MapGet(m, p), d[p].lines, t)
         IN  [m |-> MapSet(m, p, [MapGet(m, p) EXCEPT !.dirtyLines = {}]),
              log |-> saveChangeSummary(log, fails, changeSummary),
              val |-> <<changeSummary>>]

\* stopTracking that returns null for a deleted file without deleting the state
stopTrackingKeepDeleted(m, log, fails, d, t, p) ==
    IF ~MapHas(m, p)
    THEN [m |-> m, log |-> log, val |-> << >>]
    ELSE IF ~existsSync(d, p)
    THEN [m |-> m, log |-> log, val |-> << >>]
    ELSE IF ~readable(d, p)
    THEN [m |-> MapDelete(m, p), log |-> log, val |-> << >>]
    ELSE IF MapGet(m, p).dirtyLines = {}
    THEN [m |-> MapDelete(m, p), log |-> log, val |-> << >>]
    ELSE LET changeSummary == ChangeSummaryOf(p, MapGet(m, p), d[p].lines, t)
         IN  [m |-> MapDelete(m, p),
              log |-> saveChangeSummary(log, fails, changeSummary),
              val |-> <<changeSummary>>]

\* stopTracking that returns the summary and leaves the Live state in the Map
stopTrackingKeepSaved(m, log, fails, d, t, p) ==
    IF ~MapHas(m, p)
    THEN [m |-> m, log |-> log, val |-> << >>]
    ELSE IF ~existsSync(d, p) \/ ~readable(d, p)
    THEN [m |-> MapDelete(m, p), log |-> log, val |-> << >>]
    ELSE IF MapGet(m, p).dirtyLines = {}
    THEN [m |-> MapDelete(m, p), log |-> log, val |-> << >>]
    ELSE LET changeSummary == ChangeSummaryOf(p, MapGet(m, p), d[p].lines, t)
         IN  [m |-> m,
              log |-> saveChangeSummary(log, fails, changeSummary),
              val |-> <<changeSummary>>]

\* stopTracking in which a failed append leaves the Live state in the Map
stopTrackingKeepOnSaveFailure(m, log, fails, d, t, p) ==
    IF ~MapHas(m, p)
    THEN [m |-> m, log |-> log, val |-> << >>]
    ELSE IF ~existsSync(d, p) \/ ~readable(d, p)
    THEN [m |-> MapDelete(m, p), log |-> log, val |-> << >>]
    ELSE IF MapGet(m, p).dirtyLines = {}
    THEN [m |-> MapDelete(m, p), log |-> log, val |-> << >>]
    ELSE LET changeSummary == ChangeSummaryOf(p, MapGet(m, p), d[p].lines, t)
         IN  [m |-> IF fails THEN m ELSE MapDelete(m, p),
              log |-> saveChangeSummary(log, fails, changeSummary),
              val |-> <<changeSummary>>]

\* stopTracking in which a failed append reaches the catch block: state
\* deleted, null returned
stopTrackingThrowOnSave(m, log, fails, d, t, p) ==
    IF ~MapHas(m, p)
    THEN [m |-> m, log |-> log, val |-> << >>]
    ELSE IF ~existsSync(d, p) \/ ~readable(d, p)
    THEN [m |-> MapDelete(m, p), log |-> log, val |-> << >>]
    ELSE IF MapGet(m, p).dirtyLines = {}
    THEN [m |-> MapDelete(m, p), log |-> log, val |-> << >>]
    ELSE IF fails
    THEN [m |-> MapDelete(m, p), log |-> log, val |-> << >>]
    ELSE LET changeSummary == ChangeSummaryOf(p, MapGet(m, p), d[p].lines, t)
         IN  [m |-> MapDelete(m, p),
              log |-> saveChangeSummary(log, fails, changeSummary),
              val |-> <<changeSummary>>]

\* stopTracking whose catch block keeps the state of a file it cannot read
stopTrackingKeepUnreadable(m, log, fails, d, t, p) ==
    IF ~MapHas(m, p)
    THEN [m |-> m, log |-> log, val |-> << >>]
    ELSE IF ~existsSync(d, p)
    THEN [m |-> MapDelete(m, p), log |-> log, val |-> << >>]
    ELSE IF ~readable(d, p)
    THEN [m |-> m, log |-> log, val |-> << >>]
    ELSE IF MapGet(m, p).dirtyLines = {}
    THEN [m |-> MapDelete(m, p), log |-> log, val |-> << >>]
    ELSE LET changeSummary == ChangeSummaryOf(p, MapGet(m, p), d[p].lines, t)
         IN  [m |-> MapDelete(m, p),
              log |-> saveChangeSummary(log, fails, changeSummary),
              val |-> <<changeSummary>>]

\* SimpleChangeTracker.stopTracking on the tracker state (m, log):
\* the new Map, the new log and the value returned
stopTracking(m, log, fails, d, t, p) ==
    IF ~MapHas(m, p)
    THEN [m |-> m, log |-> log, val |-> << >>]
    ELSE IF ~existsSync(d, p)
    THEN [m |-> MapDelete(m, p), log |-> log, val |-> << >>]
    ELSE IF ~readable(d, p)
    THEN [m |-> MapDelete(m, p), log |-> log, val |-> << >>]
    ELSE IF MapGet(m, p).dirtyLines = {}
    THEN [m |-> MapDelete(m, p), log |-> log, val |-> << >>]
    ELSE LET changeSummary == ChangeSummaryOf(p, MapGet(m, p), d[p].lines, t)
         IN  [m |-> MapDelete(m, p),
              log |-> saveChangeSummary(log, fails, changeSummary),
              val |-> <<changeSummary>>]

\* SimpleChangeTracker.stopTrackingAll over the snapshot of keys
RECURSIVE stopTrackingEach(_, _, _, _, _, _, _)
stopTrackingEach(filePaths, m, log, fails, d, t, summaries) ==
    IF filePaths = << >>
    THEN [m |-> m, log |-> log, val |-> summaries]
    ELSE LET r == stopTracking(m, log, fails, d, t, Head(filePaths))
         IN  stopTrackingEach(Tail(filePaths), r.m, r.log, fails, d, t, summaries \o r.val)

\* stopTrackingAll that gives up when the stop of the first path returns null
stopTrackingAllAbort(m, log, fails, d, t) ==
    IF m = << >> THEN [m |-> m, log |-> log, val |-> << >>]
    ELSE LET first == stopTracking(m, log, fails, d, t, MapKeys(m)[1])
         IN  IF first.val = << >>
             THEN [m |-> first.m, log |-> first.log, val |-> << >>]
             ELSE stopTrackingEach(MapKeys(m), m, log, fails, d, t, << >>)

stopTrackingAll(m, log, fails, d, t) ==
    stopTrackingEach(MapKeys(m), m, log, fails, d, t, << >>)

----------------------------------------------------------------------------
(* TimerService (src/services/TimerService.ts, lines 1-58) and the intervals *)
(* of the event loop.  setInterval schedules a handle and clearInterval      *)
(* removes it; the callback of a handle runs only while it is scheduled.     *)
(* startTime is Date.now() less a whole number of seconds, and the clock     *)
(* counts whole days, so startTime is kept in seconds.                       *)

SecondsPerDay == 86400   \* (24 * 60 * 60 * 1000 ms) / 1000

\* new TimerService(onTick); onTick is TRUE while the callback is set
NewTimerService ==
    [isRunning |-> FALSE, startTime |-> << >>, elapsedSeconds |-> 0, interval |-> << >>, onTick |-> TRUE]

\* the timer object and the intervals of the event loop after a method ran
Timer(ts, ivs) == [timer |-> ts, intervals |-> ivs]

\* setInterval(...): a handle that no scheduled interval has
setInterval(ivs) == CHOOSE h \in 1..(Cardinality(ivs) + 1) : h \notin ivs

\* start() that schedules an interval whether or not the timer runs
startUnguarded(ts, ivs, t) ==
    LET h == setInterval(ivs)
    IN  Timer([ts EXCEPT !.isRunning = TRUE,
                         !.startTime = <<t * SecondsPerDay - ts.elapsedSeconds>>,
                         !.interval = <<h>>],
              ivs \cup {h})

\* start()
start(ts, ivs, t) ==
    IF ts.isRunning THEN Timer(ts, ivs)
    ELSE LET h == setInterval(ivs)
         IN  Timer([ts EXCEPT !.isRunning = TRUE,
                              !.startTime = <<t * SecondsPerDay - ts.elapsedSeconds>>,
                              !.interval = <<h>>],
                   ivs \cup {h})

\* stop()
stop(ts, ivs) ==
    IF ~ts.isRunning THEN Timer(ts, ivs)
    ELSE IF ts.interval # << >>
    THEN Timer([ts EXCEPT !.isRunning = FALSE, !.interval = << >>], ivs \ {ts.interval[1]})
    ELSE Timer([ts EXCEPT !.isRunning = FALSE], ivs)

\* reset()
reset(ts, ivs) ==
    LET s == stop(ts, ivs)
    IN  Timer([s.timer EXCEPT !.elapsedSeconds = 0, !.startTime = << >>], s.intervals)

\* destroy()
destroy(ts, ivs) ==
    LET s == stop(ts, ivs)
    IN  Timer([s.timer EXCEPT !.onTick = FALSE], s.intervals)

\* isActive()
isActive(ts) == ts.isRunning

\* the callback given to setInterval: elapsedSeconds =
\* Math.floor((Date.now() - startTime) / 1000); onTick only redraws the status bar
tickCallback(ts, t) ==
    [ts EXCEPT !.elapsedSeconds = t * SecondsPerDay - ts.startTime[1]]

\* the window before anything was displayed: the response of the webview and
\* the last notification
NothingShown == [response |-> << >>, message |-> ""]

\* getDiffFromSnaplog is not running
NoDiff == [pc |-> "idle", n |-> 0, commitsOffset |-> 0, success |-> FALSE, stdout |-> << >>, attempts |-> 0]

\* the extension after activate(): the timer is built and stopped, no command
\* is suspended
InitExt ==
    /\ timerService = NewTimerService
    /\ intervals = {}
    /\ pending = << >>
    /\ shown = NothingShown
    /\ gitDiff = NoDiff
    /\ nToggles = 0

----------------------------------------------------------------------------
(* The calls *)

\* what the last call was and did.  had is the local fileState the call
\* looked up: "none", "clean" (no dirty line) or "dirty"; recordChange on an
\* ignored path returns before the lookup and has "ignored"
NoRet == [op |-> "none", path |-> "", lo |-> 0, hi |-> 0, had |-> "", val |-> << >>]
Ret(op, p, lo, hi, had, val) ==
    [op |-> op, path |-> p, lo |-> lo, hi |-> hi, had |-> had, val |-> val]

Had(m, p) ==
    IF ~MapHas(m, p) THEN "none"
    ELSE IF MapGet(m, p).dirtyLines = {} THEN "clean" ELSE "dirty"

\* bookkeeping every call shares: what was returned, and whether the call
\* before it was a stopTracking
Called(r) ==
    /\ ret' = r
    /\ prevStop' = IF ret.op = "stopTracking" THEN ret.path ELSE ""

\* bookkeeping of a stop: the new log, and the summaries that reached it
Logged(log, summaries) ==
    /\ changeLog' = log
    /\ appended' = IF Len(log) > Len(changeLog) THEN appended \o summaries ELSE appended
    /\ nSaves' = nSaves + (Len(log) - Len(changeLog))

\* the change log as a workspace file: split('\n') of its content gives one
\* element for each line and an empty one behind the last line break
LogLines(log) == [i \in 1..(Len(log) + 1) |-> IF i <= Len(log) THEN 900 + i ELSE 900]

\* the workspace after the change log was written: when the model keeps the
\* log among the workspace files, that file has the log's lines
SyncLog(d, log) ==
    IF d[FileChangelog].state = "file"
    THEN [d EXCEPT ![FileChangelog] = File(LogLines(log))]
    ELSE d

\* a startTracking that takes a file it cannot read as an empty text
startTrackingEmptyBaseline(m, d, t, p) ==
    IF ~existsSync(d, p) THEN m
    ELSE IF ~readable(d, p) THEN MapSet(m, p, NewFileState(p, << >>, t))
    ELSE MapSet(m, p, NewFileState(p, d[p].lines, t))

\* SimpleChangeTracker.startTracking on the Map
startTracking(m, d, t, p) ==
    IF ~existsSync(d, p) THEN m
    ELSE IF ~readable(d, p) THEN m
    ELSE MapSet(m, p, NewFileState(p, d[p].lines, t))

StartTracking(p) ==
    /\ fileStates' = startTracking(fileStates, disk, now, p)
    /\ Called(Ret("startTracking", p, 0, 0, "", << >>))
    /\ UNCHANGED <<extVars, patterns, changeLog, logFails, disk, now, appended, nSaves>>

\* recordChange that returns after the auto-start without marking the lines
recordChangeStartOnly(m, pats, d, t, p, startLine, endLine) ==
    IF IsIgnored(pats, p) THEN m
    ELSE IF ~MapHas(m, p) THEN startTracking(m, d, t, p)
    ELSE MapSet(m, p, [MapGet(m, p) EXCEPT !.dirtyLines = @ \cup (startLine..endLine)])

\* recordChange that keeps only the lines of the last event
recordChangeReplace(m, pats, d, t, p, startLine, endLine) ==
    IF IsIgnored(pats, p) THEN m
    ELSE LET started == IF MapHas(m, p) THEN m ELSE startTracking(m, d, t, p)
         IN  IF ~MapHas(started, p) THEN started
             ELSE MapSet(started, p,
                         [MapGet(started, p) EXCEPT !.dirtyLines = startLine..endLine])

\* recordChange that marks the first line of the range only
recordChangeFirstLine(m, pats, d, t, p, startLine, endLine) ==
    IF IsIgnored(pats, p) THEN m
    ELSE LET started == IF MapHas(m, p) THEN m ELSE startTracking(m, d, t, p)
         IN  IF ~MapHas(started, p) THEN started
             ELSE MapSet(started, p,
                         [MapGet(started, p) EXCEPT !.dirtyLines = @ \cup {startLine}])

\* recordChange that marks the lines in every Live state of the Map
recordChangeMarkAll(m, pats, d, t, p, startLine, endLine) ==
    IF IsIgnored(pats, p) THEN m
    ELSE LET started == IF MapHas(m, p) THEN m ELSE startTracking(m, d, t, p)
         IN  IF ~MapHas(started, p) THEN started
             ELSE [i \in 1..Len(started) |->
                     [started[i] EXCEPT !.dirtyLines = @ \cup (startLine..endLine)]]

\* SimpleChangeTracker.recordChange on the Map: the document's path p and the
\* lines change.range.start.line .. change.range.end.line
recordChange(m, pats, d, t, p, startLine, endLine) ==
    IF IsIgnored(pats, p) THEN m
    ELSE LET started == IF MapHas(m, p) THEN m ELSE startTracking(m, d, t, p)
         IN  IF ~MapHas(started, p) THEN started
             ELSE MapSet(started, p,
                         [MapGet(started, p) EXCEPT
                            !.dirtyLines = @ \cup (startLine..endLine)])

RecordChange(p, startLine, endLine) ==
    /\ startLine <= endLine
    /\ fileStates' = recordChange(fileStates, patterns, disk, now, p, startLine, endLine)
    /\ Called(Ret("recordChange", p, startLine, endLine,
                  IF IsIgnored(patterns, p) THEN "ignored" ELSE Had(fileStates, p), << >>))
    /\ UNCHANGED <<extVars, patterns, changeLog, logFails, disk, now, appended, nSaves>>

\* stopTracking(filePath), also what the save listener of the extension runs
StopTracking(p, maxSaves) ==
    LET r == stopTracking(fileStates, changeLog, logFails, disk, now, p)
    IN  /\ Len(r.log) > Len(changeLog) => nSaves < maxSaves
        /\ fileStates' = r.m
        /\ Logged(r.log, r.val)
        /\ disk' = SyncLog(disk, r.log)
        /\ Called(Ret("stopTracking", p, 0, 0, Had(fileStates, p), r.val))
        /\ UNCHANGED <<extVars, patterns, logFails, now>>

\* a stopTrackingAll that empties the Map without stopping its paths
StopTrackingAllDiscard(maxSaves) ==
    /\ fileStates' = << >>
    /\ Logged(changeLog, << >>)
    /\ disk' = SyncLog(disk, changeLog)
    /\ Called(Ret("stopTrackingAll", "", Len(fileStates), 0, "", << >>))
    /\ UNCHANGED <<extVars, patterns, logFails, now>>

StopTrackingAll(maxSaves) ==
    LET r == stopTrackingAll(fileStates, changeLog, logFails, disk, now)
    IN  /\ nSaves + (Len(r.log) - Len(changeLog)) <= maxSaves
        /\ fileStates' = r.m
        /\ Logged(r.log, r.val)
        /\ disk' = SyncLog(disk, r.log)
        /\ Called(Ret("stopTrackingAll", "", Len(fileStates), 0, "", r.val))
        /\ UNCHANGED <<extVars, patterns, logFails, now>>

\* deactivate that discards the Live states without stopping them
DeactivateNoFlush(maxSaves) ==
    /\ fileStates' = << >>
    /\ changeLog' = cleanupOldChanges(changeLog, logFails, now, DefaultDaysToKeep)
    /\ disk' = SyncLog(disk, cleanupOldChanges(changeLog, logFails, now, DefaultDaysToKeep))
    /\ appended' = IF logFails THEN appended ELSE << >>
    /\ nSaves' = nSaves
    /\ Called(Ret("deactivate", "", Len(fileStates), 0, "", << >>))
    /\ timerService' = destroy(timerService, intervals).timer
    /\ intervals' = destroy(timerService, intervals).intervals
    /\ UNCHANGED <<patterns, logFails, now, pending, shown, gitDiff, nToggles>>

\* deactivate: timerService.destroy(), stopTrackingAll, then cleanupOldChanges
\* with its default
Deactivate(maxSaves) ==
    LET r == stopTrackingAll(fileStates, changeLog, logFails, disk, now)
    IN  /\ nSaves + (Len(r.log) - Len(changeLog)) <= maxSaves
        /\ fileStates' = r.m
        /\ changeLog' = cleanupOldChanges(r.log, logFails, now, DefaultDaysToKeep)
        /\ disk' = SyncLog(disk, cleanupOldChanges(r.log, logFails, now, DefaultDaysToKeep))
        /\ appended' = IF logFails THEN appended ELSE << >>
        /\ nSaves' = nSaves + (Len(r.log) - Len(changeLog))
        /\ Called(Ret("deactivate", "", Len(fileStates), 0, "", r.val))
        /\ timerService' = destroy(timerService, intervals).timer
        /\ intervals' = destroy(timerService, intervals).intervals
        /\ UNCHANGED <<patterns, logFails, now, pending, shown, gitDiff, nToggles>>

GetRecentChanges(limit) ==
    /\ Called(Ret("getRecentChanges", "", limit, 0, "",
                  getRecentChanges(changeLog, logFails, limit)))
    /\ UNCHANGED <<extVars, fileStates, patterns, changeLog, logFails, disk, now, appended, nSaves>>

CleanupOldChanges(daysToKeep) ==
    /\ changeLog' = cleanupOldChanges(changeLog, logFails, now, daysToKeep)
    /\ disk' = SyncLog(disk, cleanupOldChanges(changeLog, logFails, now, daysToKeep))
    /\ appended' = IF logFails THEN appended ELSE << >>
    /\ Called(Ret("cleanupOldChanges", "", daysToKeep, 0, "", << >>))
    /\ UNCHANGED <<extVars, fileStates, patterns, logFails, now, nSaves>>

----------------------------------------------------------------------------
(* The resume pipeline (src/snapflow/resume.ts) and the rendering it reads   *)
(*                                                                         *)
(* A text is a sequence of pieces.  A piece is a literal string, the JSON  *)
(* serialization of an object, or one rendered block of a change.          *)

Lit(s) == [t |-> s, obj |-> << >>]
\* JSON.stringify(o)
JsonText(o) == [t |-> "json", obj |-> <<o>>]

\* array.join(sep) of texts
RECURSIVE Join(_, _)
Join(texts, sep) ==
    IF texts = << >> THEN << >>
    ELSE IF Len(texts) = 1 THEN texts[1]
    ELSE texts[1] \o <<sep>> \o Join(Tail(texts), sep)

\* path.basename: the characters after the last "/"
basename(p) == LET segs == SplitSlash(CharsOf(p)) IN segs[Len(segs)]

\* SimpleChangeTracker.getTimeAgo at clock t, which counts days of 1440
\* minutes and 86400 seconds
getTimeAgo(t, timestamp) ==
    LET diff == t - timestamp
        diffMins == diff * 1440
        diffSecs == diff * 86400
    IN  IF diffMins < 1 THEN [n |-> diffSecs, unit |-> "seconds ago"]
        ELSE IF diffMins < 60 THEN [n |-> diffMins, unit |-> "minutes ago"]
        ELSE [n |-> diffMins \div 60, unit |-> "hours ago"]

\* changes.sort((a, b) => b.endTime - a.endTime): descending, stable
RECURSIVE SortByEndTimeDesc(_)
SortByEndTimeDesc(changes) ==
    IF changes = << >> THEN << >>
    ELSE LET sorted == SortByEndTimeDesc(SubSeq(changes, 1, Len(changes) - 1))
             x == changes[Len(changes)]
             k == Cardinality({i \in 1..Len(sorted) : sorted[i].endTime >= x.endTime})
         IN  SubSeq(sorted, 1, k) \o <<x>> \o SubSeq(sorted, k + 1, Len(sorted))

\* the sentinel of an empty window
NoRecentChanges == <<Lit("No recent changes found.")>>

\* the block rendered for one change
FormatChange(change, index, t) ==
    <<[t |-> "block",
       obj |-> <<[index |-> index,
                  fileName |-> basename(change.filePath),
                  filePath |-> change.filePath,
                  startLine |-> change.startLine,
                  endLine |-> change.endLine,
                  timeAgo |-> getTimeAgo(t, change.endTime),
                  changedLines |-> change.changedLines,
                  before |-> change.before,
                  after |-> change.after]>>]>>

\* a rendering that leaves the changes in the order of the log
getFormattedRecentChangesUnsorted(log, fails, limit, t) ==
    LET changes == getRecentChanges(log, fails, limit)
    IN  IF Len(changes) = 0 THEN NoRecentChanges
        ELSE LET formattedChanges ==
                     [i \in 1..Len(changes) |-> FormatChange(changes[i], i, t)]
             IN  Join(formattedChanges, Lit("\n\n"))

\* SimpleChangeTracker.getFormattedRecentChanges
getFormattedRecentChanges(log, fails, limit, t) ==
    LET changes == getRecentChanges(log, fails, limit)
    IN  IF Len(changes) = 0 THEN NoRecentChanges
        ELSE LET sortedChanges == SortByEndTimeDesc(changes)
                 formattedChanges ==
                     [i \in 1..Len(sortedChanges) |-> FormatChange(sortedChanges[i], i, t)]
             IN  Join(formattedChanges, Lit("\n\n"))

\* getEnhancedSystemPrompt: the fixed instruction template
getEnhancedSystemPrompt == <<Lit("You are helping a developer resume their workflow.")>>

\* the payload returned when there is nothing to summarize
FallbackResponse ==
    [summary |-> "No recent coding activity detected",
     tasks |-> << >>,
     fileRelationships |-> << >>,
     nextSteps |-> <<[action |-> "Start coding",
                      file |-> "any file",
                      lines |-> <<1, 1>>,
                      description |-> "Begin working on your project to generate activity data"]>>]

\* what aiProvider.generateResume may answer: the promise rejects, or it
\* resolves to a text
Rejected == <<Lit("AI generation failed")>>
\* the fence markers: three backquotes followed by json, and three backquotes
FenceJson == Lit("[fence]json")
Fence == Lit("[fence]")
Newline == Lit("\n")
ResumeObject ==
    [summary |-> "Editing a.ts", tasks |-> << >>, fileRelationships |-> << >>, nextSteps |-> << >>]

\* The answers of the provider: a rejection, plain JSON, JSON in a json
\* fence (with and without line breaks, and with fences inside the fenced
\* text), plain prose, and text in a fence that does not name json
ResponseList ==
    << Rejected,
       <<JsonText(ResumeObject)>>,
       <<FenceJson, Newline, JsonText(ResumeObject), Newline, Fence>>,
       <<Lit("Recent Work: a.ts")>>,
       <<FenceJson, Newline, JsonText(ResumeObject), Newline, Fence, Newline>>,
       <<FenceJson, JsonText(ResumeObject), Fence>>,
       <<FenceJson, Newline, Lit("{"), FenceJson, Newline, Lit("x"), Fence, Newline,
         Lit("}"), Newline, Fence>>,
       <<Fence, Newline, Lit("const x = 1"), Newline, Fence>> >>

ResponseIndex(response) ==
    CHOOSE k \in 1..Len(ResponseList) : ResponseList[k] = response

\* response.replace(/```json\n?/, ''): the first opening fence and the line
\* break after it
RemoveFirstFenceJson(text) ==
    LET k == CHOOSE i \in 1..Len(text) : text[i] = FenceJson /\ \A j \in 1..(i - 1) : text[j] # FenceJson
        n == IF k < Len(text) /\ text[k + 1] = Newline THEN 2 ELSE 1
    IN  SubSeq(text, 1, k - 1) \o SubSeq(text, k + n, Len(text))

\* .replace(/```\n?$/, ''): a fence at the very end, with its line break
RemoveLastFence(text) ==
    IF Len(text) >= 1 /\ text[Len(text)] = Fence
    THEN SubSeq(text, 1, Len(text) - 1)
    ELSE IF Len(text) >= 2 /\ text[Len(text)] = Newline /\ text[Len(text) - 1] = Fence
    THEN SubSeq(text, 1, Len(text) - 2)
    ELSE text

\* a cleaning that removes every fence marker of the response
CleanResponseEveryFence(response) ==
    IF \E i \in 1..Len(response) : response[i] = FenceJson
    THEN SelectSeq(response, LAMBDA piece : piece \notin {FenceJson, Fence})
    ELSE response

\* the cleaning of the response
CleanResponse(response) ==
    IF \E i \in 1..Len(response) : response[i] = FenceJson
    THEN RemoveLastFence(RemoveFirstFenceJson(response))
    ELSE response

\* the outcome of enhancedPromptForResume
ResumeOutcome(had, calls, val) == [had |-> had, calls |-> calls, val |-> val]

\* enhancedPromptForResume that sends the prompt whatever the window holds
enhancedPromptForResumeNoSentinel(log, fails, t, response) ==
    LET formattedChanges == getFormattedRecentChanges(log, fails, DefaultLimit, t)
        prompt == getEnhancedSystemPrompt \o <<Lit("\n\n")>> \o formattedChanges
    IN  IF response = Rejected THEN ResumeOutcome("threw", 1, << >>)
        ELSE ResumeOutcome("generated", 1, <<CleanResponse(response)>>)

\* enhancedPromptForResume that asks the provider a second time when the
\* first request is rejected
enhancedPromptForResumeRetry(log, fails, t, response) ==
    LET formattedChanges == getFormattedRecentChanges(log, fails, DefaultLimit, t)
        prompt == getEnhancedSystemPrompt \o <<Lit("\n\n")>> \o formattedChanges
    IN  IF formattedChanges = NoRecentChanges
        THEN ResumeOutcome("fallback", 0, <<<<JsonText(FallbackResponse)>>>>)
        ELSE IF response = Rejected THEN ResumeOutcome("threw", 2, << >>)
        ELSE ResumeOutcome("generated", 1, <<CleanResponse(response)>>)

\* enhancedPromptForResume, with the answer the provider gives if it is asked
enhancedPromptForResume(log, fails, t, response) ==
    LET formattedChanges == getFormattedRecentChanges(log, fails, DefaultLimit, t)
        prompt == getEnhancedSystemPrompt \o <<Lit("\n\n")>> \o formattedChanges
    IN  IF formattedChanges = NoRecentChanges
        THEN ResumeOutcome("fallback", 0, <<<<JsonText(FallbackResponse)>>>>)
        ELSE IF response = Rejected THEN ResumeOutcome("threw", 1, << >>)
        ELSE ResumeOutcome("generated", 1, <<CleanResponse(response)>>)

GetFormattedRecentChanges(limit) ==
    /\ Called(Ret("getFormattedRecentChanges", "", limit, 0, "",
                  <<getFormattedRecentChanges(changeLog, logFails, limit, now)>>))
    /\ UNCHANGED <<extVars, fileStates, patterns, changeLog, logFails, disk, now, appended, nSaves>>

----------------------------------------------------------------------------
(* IgnorePatterns: the rule set in memory and the rules file                *)

\* A line of the rules file: a rule, a comment (its first character that is
\* not white space is #) or nothing; pad tells that white space surrounds it
RuleLine(t)       == [kind |-> "rule", text |-> t, pad |-> FALSE]
PaddedRuleLine(t) == [kind |-> "rule", text |-> t, pad |-> TRUE]
CommentLine(t)    == [kind |-> "comment", text |-> t, pad |-> FALSE]
EmptyLine         == [kind |-> "empty", text |-> "", pad |-> FALSE]
WhiteLine        == [kind |-> "empty", text |-> "", pad |-> TRUE]

\* String.prototype.trim
Trim(l) == [l EXCEPT !.pad = FALSE]

\* line.length > 0 && !line.startsWith('#'), of a trimmed line
IsRuleLine(l) == l.kind = "rule"

\* IgnorePatterns.normalizePattern: every backslash becomes a slash
normalizePattern(g) ==
    IF g = "build\\out" THEN "build/out"
    ELSE IF g = "src\\gen\\*.ts" THEN "src/gen/*.ts"
    ELSE g

\* content.split('\n').map(trim).filter(...).map(normalizePattern)
ParseRules(ls) ==
    LET trimmed == [i \in 1..Len(ls) |-> Trim(ls[i])]
        kept    == SelectSeq(trimmed, IsRuleLine)
    IN  [i \in 1..Len(kept) |-> normalizePattern(kept[i].text)]

\* IgnorePatterns.getDefaultIgnoreFileContent
getDefaultIgnoreFileContent ==
    <<
     CommentLine("# SnapFlow Ignore File"),
     CommentLine("# Files and folders that should not be tracked for development context"),
     EmptyLine, CommentLine("# Environment and configuration files"),
     RuleLine(".env"), RuleLine(".env.local"), RuleLine(".env.development"),
     RuleLine(".env.test"), RuleLine(".env.production"),
     RuleLine(".env.*.local"), EmptyLine,
     CommentLine("# SnapFlow's own data - CRITICAL to prevent recursive loops"),
     RuleLine(".snapflow/"), RuleLine(".snapflow/*"),
     RuleLine(".snapflowignore"), RuleLine("changelog.jsonl"),
     RuleLine("snaplog.jsonl"), RuleLine("*.jsonl"), EmptyLine,
     CommentLine("# Dependencies and build artifacts"),
     RuleLine("node_modules/"), RuleLine("dist/"), RuleLine("build/"),
     RuleLine("out/"), RuleLine("*.min.js"), RuleLine("*.min.css"),
     EmptyLine, CommentLine("# Logs and temporary files"), RuleLine("*.log"),
     RuleLine("*.tmp"), RuleLine("*.temp"), RuleLine(".DS_Store"),
     RuleLine("Thumbs.db"), EmptyLine, CommentLine("# IDE and editor files"),
     RuleLine(".vscode/"), RuleLine(".idea/"), RuleLine("*.swp"),
     RuleLine("*.swo"), RuleLine("*~"), EmptyLine,
     CommentLine("# Git and version control"), RuleLine(".git/"),
     RuleLine(".gitignore"), EmptyLine,
     CommentLine("# Test coverage and reports"), RuleLine("coverage/"),
     RuleLine("*.lcov"), RuleLine(".nyc_output/"), EmptyLine,
     CommentLine("# Package manager files"), RuleLine("package-lock.json"),
     RuleLine("yarn.lock"), RuleLine("pnpm-lock.yaml"), EmptyLine,
     CommentLine("# OS generated files"), RuleLine(".DS_Store"),
     RuleLine(".DS_Store?"), RuleLine("._*"), RuleLine(".Spotlight-V100"),
     RuleLine(".Trashes"), RuleLine("ehthumbs.db"), RuleLine("Thumbs.db"),
     EmptyLine, CommentLine("# Extension build files"), RuleLine("*.vsix"),
     RuleLine("webpack.config.js"), RuleLine("tsconfig.json"),
     RuleLine("tailwind.config.js"), RuleLine("postcss.config.js"),
     RuleLine("eslint.config.mjs"), EmptyLine
    >>

\* IgnorePatterns.createIgnoreFile: a failure to write is logged and swallowed
createIgnoreFile(d) ==
    IF d[FileIgnore].state = "blocked" THEN d
    ELSE [d EXCEPT ![FileIgnore] = File(getDefaultIgnoreFileContent)]

\* a load that leaves the rule set as it was when the file cannot be read
loadIgnorePatternsKeepOnError(ps, d) ==
    IF existsSync(d, FileIgnore)
    THEN IF readable(d, FileIgnore)
         THEN [patterns |-> ParseRules(d[FileIgnore].lines), disk |-> d, how |-> "loaded"]
         ELSE [patterns |-> ps, disk |-> d, how |-> "failed"]
    ELSE [patterns |-> getDefaultPatterns, disk |-> createIgnoreFile(d), how |-> "created"]

\* a load that adds the rules of the file to the rules in memory
loadIgnorePatternsMerge(ps, d) ==
    IF existsSync(d, FileIgnore)
    THEN IF readable(d, FileIgnore)
         THEN [patterns |-> ps \o ParseRules(d[FileIgnore].lines), disk |-> d, how |-> "loaded"]
         ELSE [patterns |-> getDefaultPatterns, disk |-> d, how |-> "failed"]
    ELSE [patterns |-> getDefaultPatterns, disk |-> createIgnoreFile(d), how |-> "created"]

\* IgnorePatterns.loadIgnorePatterns over the rule set ps and the files d:
\* the new rule set, the files, and the branch taken (the rules were loaded
\* from the file, the file was absent and its creation attempted, or the read
\* failed and the catch clause ran).  No branch throws
loadIgnorePatterns(ps, d) ==
    IF existsSync(d, FileIgnore)
    THEN IF readable(d, FileIgnore)
         THEN [patterns |-> ParseRules(d[FileIgnore].lines), disk |-> d, how |-> "loaded"]
         ELSE [patterns |-> getDefaultPatterns, disk |-> d, how |-> "failed"]
    ELSE [patterns |-> getDefaultPatterns, disk |-> createIgnoreFile(d), how |-> "created"]

\* patterns.indexOf(g), 0 when g is not there
IndexOf(ps, g) ==
    IF g \in Range(ps) THEN SetMin({i \in 1..Len(ps) : ps[i] = g}) ELSE 0

\* IgnorePatterns.addPattern
addPattern(ps, g) ==
    LET n == normalizePattern(g)
    IN  IF n \in Range(ps) THEN ps ELSE Append(ps, n)

\* IgnorePatterns.removePattern: splice(index, 1) at the first occurrence
removePattern(ps, g) ==
    LET i == IndexOf(ps, normalizePattern(g))
    IN  IF i = 0 THEN ps
        ELSE [k \in 1..(Len(ps) - 1) |-> IF k < i THEN ps[k] ELSE ps[k + 1]]

\* new IgnorePatterns(cwd): the rule set starts empty and is loaded
NewIgnorePatterns ==
    LET r == loadIgnorePatterns(<< >>, disk)
    IN  /\ patterns' = r.patterns
        /\ disk' = r.disk
        /\ Called(Ret("load", FileIgnore, 0, 0, r.how, << >>))
        /\ UNCHANGED <<extVars, fileStates, changeLog, logFails, now, appended, nSaves>>

Reload ==
    LET r == loadIgnorePatterns(patterns, disk)
    IN  /\ patterns' = r.patterns
        /\ disk' = r.disk
        /\ Called(Ret("reload", FileIgnore, 0, 0, r.how, << >>))
        /\ UNCHANGED <<extVars, fileStates, changeLog, logFails, now, appended, nSaves>>

\* ret.path is the normalized pattern, ret.had tells whether it was there
AddPattern(g) ==
    /\ patterns' = addPattern(patterns, g)
    /\ Called(Ret("addPattern", normalizePattern(g), 0, 0,
                  IF normalizePattern(g) \in Range(patterns) THEN "present" ELSE "absent",
                  << >>))
    /\ UNCHANGED <<extVars, fileStates, changeLog, logFails, disk, now, appended, nSaves>>

RemovePattern(g) ==
    /\ patterns' = removePattern(patterns, g)
    /\ Called(Ret("removePattern", normalizePattern(g), 0, 0,
                  IF normalizePattern(g) \in Range(patterns) THEN "present" ELSE "absent",
                  << >>))
    /\ UNCHANGED <<extVars, fileStates, changeLog, logFails, disk, now, appended, nSaves>>

\* the directory of a file that is not there becomes read-only
BlockFile(p) ==
    /\ disk[p].state = "missing"
    /\ disk' = [disk EXCEPT ![p] = Blocked]
    /\ Called(NoRet)
    /\ UNCHANGED <<extVars, fileStates, patterns, changeLog, logFails, now, appended, nSaves>>

----------------------------------------------------------------------------
(* A run of the resume pipeline *)

\* an ensureChangeLogExists that writes the empty text whether or not the log
\* is there
ensureChangeLogExistsTruncate(log) == << >>

\* SimpleChangeTracker.ensureChangeLogExists: the log is written only when it
\* is absent, and then with the empty text.  An absent log and an empty one
\* are both the empty sequence of lines
ensureChangeLogExists(log) == IF log = << >> THEN << >> ELSE log

\* One run of the pipeline.  It builds a tracker of its own, whose constructor
\* loads the ignore rules (writing the rules file when there is none) and
\* makes sure the change log exists, and reads the window through it.
\* ret.lo is the number of generation requests the run made, ret.hi the place
\* in ResponseList of the answer the provider had for it
EnhancedPromptForResume(response) ==
    LET log == ensureChangeLogExists(changeLog)
        r == enhancedPromptForResume(log, logFails, now, response)
    IN  /\ changeLog' = log
        /\ disk' = SyncLog(loadIgnorePatterns(<< >>, disk).disk, log)
        /\ Called(Ret("enhancedPromptForResume", "", r.calls, ResponseIndex(response),
                      r.had, r.val))
        /\ UNCHANGED <<extVars, fileStates, patterns, logFails, now, appended, nSaves>>

----------------------------------------------------------------------------
(* The timer driven by its callers, and the interval of the event loop *)

\* bookkeeping of a call on the timer: the timer and the intervals it leaves,
\* and whether the timer was running when the call came
TimerCalled(op, r) ==
    /\ timerService' = r.timer
    /\ intervals' = r.intervals
    /\ Called(Ret(op, "", 0, 0, IF isActive(timerService) THEN "running" ELSE "stopped", << >>))
    /\ UNCHANGED <<fileStates, patterns, changeLog, logFails, disk, now, appended, nSaves,
                   pending, shown, gitDiff, nToggles>>

TimerStart == TimerCalled("start", start(timerService, intervals, now))
TimerStop == TimerCalled("stop", stop(timerService, intervals))
TimerReset == TimerCalled("reset", reset(timerService, intervals))
TimerDestroy == TimerCalled("destroy", destroy(timerService, intervals))

\* the event loop runs the callback of a scheduled interval
IntervalFires(h) ==
    /\ h \in intervals
    /\ timerService' = tickCallback(timerService, now)
    /\ Called(Ret("tick", "", h, 0, IF isActive(timerService) THEN "running" ELSE "stopped", << >>))
    /\ UNCHANGED <<fileStates, patterns, changeLog, logFails, disk, now, appended, nSaves,
                   intervals, pending, shown, gitDiff, nToggles>>

----------------------------------------------------------------------------
(* The start/stop command (src/extension.ts, lines 146-236) and saveSession  *)
(* (src/snapflow/save.ts).  A command runs to its first await in one step;   *)
(* what it awaits is kept in `pending` and settles in a later step.  An      *)
(* await of a promise that is already settled continues before any other    *)
(* command or event runs, so it does not end the step.                       *)

ResumeFailedMessage == "Failed to generate resume. Please check your API key and try again."
SessionResumedMessage == "SnapFlow session resumed"
SessionSavedMessage == "Session context saved successfully"
SaveFailedMessage == "Failed to save session context"

\* the suspended calls
ResumeTask(log, fails, t) == [kind |-> "resume", log |-> log, fails |-> fails, t |-> t]
SaveTask == [kind |-> "save", log |-> << >>, fails |-> FALSE, t |-> 0]

\* the sequence without its i-th element
RemoveAt(s, i) == SubSeq(s, 1, i - 1) \o SubSeq(s, i + 1, Len(s))

\* the window after startStopwatch got the resume or caught the rejection:
\* webviewService.showResponse and the notification.  No answer of
\* ResponseList holds the words "Recent Work: ", so the notification of a
\* resume is the default one
ShowResume(r) ==
    IF r.had = "threw"
    THEN [response |-> <<<<Lit(ResumeFailedMessage)>>>>, message |-> ResumeFailedMessage]
    ELSE [response |-> r.val, message |-> SessionResumedMessage]

\* fs.appendFileSync on the session log succeeds
appendable(d, p) == d[p].state \in {"file", "missing"}

\* SessionManager.writeToSnaplog: one more line at the end of snaplog.jsonl
writeToSnaplog(d) ==
    [d EXCEPT ![FileSnaplog] = File(Append(d[FileSnaplog].lines, 500 + Len(d[FileSnaplog].lines)))]

\* a stopStopwatch that flushes the Live states only when the session log
\* can be written
StopStopwatchFlushIfWritable(maxSaves) ==
    LET t == stop(timerService, intervals)
        r == IF appendable(disk, FileSnaplog)
             THEN stopTrackingAll(fileStates, changeLog, logFails, disk, now)
             ELSE [m |-> fileStates, log |-> changeLog, val |-> << >>]
    IN  /\ nSaves + (Len(r.log) - Len(changeLog)) <= maxSaves
        /\ timerService' = t.timer
        /\ intervals' = t.intervals
        /\ fileStates' = r.m
        /\ Logged(r.log, r.val)
        /\ disk' = SyncLog(disk, r.log)
        /\ pending' = Append(pending, SaveTask)
        /\ Called(Ret("toggle", "", Len(fileStates), 0, "stop", r.val))
        /\ UNCHANGED <<patterns, logFails, now, shown, gitDiff>>

\* stopStopwatch up to `await saveSession(cwd)`: timerService.stop(),
\* stopTrackingAll(), and saveSession up to its Promise.all
StopStopwatch(maxSaves) ==
    LET t == stop(timerService, intervals)
        r == stopTrackingAll(fileStates, changeLog, logFails, disk, now)
    IN  /\ nSaves + (Len(r.log) - Len(changeLog)) <= maxSaves
        /\ timerService' = t.timer
        /\ intervals' = t.intervals
        /\ fileStates' = r.m
        /\ Logged(r.log, r.val)
        /\ disk' = SyncLog(disk, r.log)
        /\ pending' = Append(pending, SaveTask)
        /\ Called(Ret("toggle", "", Len(fileStates), 0, "stop", r.val))
        /\ UNCHANGED <<patterns, logFails, now, shown, gitDiff>>

\* saveSession settles: the git data is gathered (each git call catches its
\* own failure) and SessionManager.saveSession makes sure of the directory
\* and appends the entry; when either throws, saveSession rethrows and
\* stopStopwatch catches it, warns, and returns normally.
\* ret.had is what saveSession did, ret.val how stopStopwatch's promise ended
SaveSessionSettles(i) ==
    /\ i \in 1..Len(pending)
    /\ pending[i].kind = "save"
    /\ pending' = RemoveAt(pending, i)
    /\ IF appendable(disk, FileSnaplog)
       THEN /\ disk' = writeToSnaplog(disk)
            /\ shown' = [shown EXCEPT !.message = SessionSavedMessage]
            /\ Called(Ret("saveSession", "", 0, 0, "saved", <<"resolved">>))
       ELSE /\ disk' = disk
            /\ shown' = [shown EXCEPT !.message = SaveFailedMessage]
            /\ Called(Ret("saveSession", "", 0, 0, "failed", <<"resolved">>))
    /\ UNCHANGED <<fileStates, patterns, changeLog, logFails, now, appended, nSaves,
                   timerService, intervals, gitDiff, nToggles>>

\* a startStopwatch that leaves the timer as it is
StartStopwatchNoStart(maxSaves) ==
    LET log == ensureChangeLogExists(changeLog)
        r == enhancedPromptForResume(log, logFails, now, Rejected)
    IN  /\ changeLog' = log
        /\ disk' = SyncLog(loadIgnorePatterns(<< >>, disk).disk, log)
        /\ IF r.calls = 0
           THEN /\ pending' = pending
                /\ shown' = ShowResume(r)
           ELSE /\ pending' = Append(pending, ResumeTask(log, logFails, now))
                /\ shown' = shown
        /\ Called(Ret("toggle", "", r.calls, 0, "start", << >>))
        /\ UNCHANGED <<fileStates, patterns, logFails, now, appended, nSaves,
                       timerService, intervals, gitDiff>>

\* startStopwatch up to `await enhancedPromptForResume(cwd)`: when the timer
\* runs it is stopStopwatch; else timerService.start(), and the resume
\* pipeline up to its request to the provider.  A pipeline that makes no
\* request has its answer at once, and the answer is displayed in this step
StartStopwatch(maxSaves) ==
    IF isActive(timerService) THEN StopStopwatch(maxSaves)
    ELSE LET t == start(timerService, intervals, now)
             log == ensureChangeLogExists(changeLog)
             r == enhancedPromptForResume(log, logFails, now, Rejected)
         IN  /\ timerService' = t.timer
             /\ intervals' = t.intervals
             /\ changeLog' = log
             /\ disk' = SyncLog(loadIgnorePatterns(<< >>, disk).disk, log)
             /\ IF r.calls = 0
                THEN /\ pending' = pending
                     /\ shown' = ShowResume(r)
                ELSE /\ pending' = Append(pending, ResumeTask(log, logFails, now))
                     /\ shown' = shown
             /\ Called(Ret("toggle", "", r.calls, 0, "start", << >>))
             /\ UNCHANGED <<fileStates, patterns, logFails, now, appended, nSaves, gitDiff>>

\* the command snapflow-ui.start-stop: toggleStopwatch
ToggleStopwatch(maxSaves, maxToggles) ==
    /\ nToggles < maxToggles
    /\ nToggles' = nToggles + 1
    /\ IF isActive(timerService) THEN StopStopwatch(maxSaves) ELSE StartStopwatch(maxSaves)

\* the provider answers the request of a suspended startStopwatch, which
\* displays the resume, or the error message when the request was rejected.
\* ret.hi is the place of the answer in ResponseList
ResumeSettles(i, response) ==
    /\ i \in 1..Len(pending)
    /\ pending[i].kind = "resume"
    /\ LET r == enhancedPromptForResume(pending[i].log, pending[i].fails, pending[i].t, response)
       IN  /\ shown' = ShowResume(r)
           /\ Called(Ret("resume", "", r.calls, ResponseIndex(response), r.had, r.val))
    /\ pending' = RemoveAt(pending, i)
    /\ UNCHANGED <<fileStates, patterns, changeLog, logFails, disk, now, appended, nSaves,
                   timerService, intervals, gitDiff, nToggles>>

----------------------------------------------------------------------------
(* GitService.getDiffFromSnaplog (src/services/GitService.ts, lines 77-120)  *)
(*                                                                         *)
(* A line of snaplog.jsonl is a token: version 5 is a session entry with a  *)
(* last_commit, version 6 an entry without one, version 8 a blank line, and *)
(* any other token is not JSON.  A git command is awaited: the call runs to *)
(* the command it starts in one step, and the command settles in a later    *)
(* step, with its output or with an error.                                  *)

\* the output of `git diff <from> -- . ':!.snapflow/'`
DiffText(from) == <<Lit("git diff " \o from)>>

\* snaplog.split('\n').filter(line => line.trim() !== '')
SnapLines(ls) == SelectSeq(ls, LAMBDA l : l \div 100 # 8)

\* how getDiffFromSnaplog starts: "caught" when reading or parsing the
\* session log throws, "getDiff" when its last entry names a commit, else
\* "loop", the fallback on the recent commits
SnaplogBranch(d) ==
    IF ~existsSync(d, FileSnaplog) THEN "loop"
    ELSE IF ~readable(d, FileSnaplog) THEN "caught"
    ELSE LET lines == SnapLines(d[FileSnaplog].lines)
         IN  IF lines = << >> THEN "loop"
             ELSE IF lines[Len(lines)] \div 100 = 5 THEN "getDiff"
             ELSE IF lines[Len(lines)] \div 100 = 6 THEN "loop"
             ELSE "caught"

\* getDiffFromSnaplog returns
Returned(g, how) ==
    /\ gitDiff' = [g EXCEPT !.pc = "done"]
    /\ Called(Ret("getDiffFromSnaplog", "", g.n, g.attempts, how, <<g.stdout>>))

\* getDiffFromSnaplog(nCommitsFallback) up to the first git command
GetDiffFromSnaplog(n) ==
    /\ gitDiff.pc \in {"idle", "done"}
    /\ LET branch == SnaplogBranch(disk)
           g == [pc |-> branch, n |-> n, commitsOffset |-> n, success |-> FALSE,
                 stdout |-> << >>, attempts |-> 0]
       IN  IF branch = "caught" \/ (branch = "loop" /\ n < 0)
           THEN Returned(g, IF branch = "caught" THEN "caught" ELSE "fallback")
           ELSE /\ gitDiff' = g
                /\ Called(Ret("getDiffFromSnaplog", "", n, 0, "awaiting", << >>))
    /\ UNCHANGED <<fileStates, patterns, changeLog, logFails, disk, now, appended, nSaves,
                   timerService, intervals, pending, shown, nToggles>>

\* getDiff(lastSHA) settles; it catches the failure of its command and
\* returns the empty text
GetDiffSettles(ok) ==
    /\ gitDiff.pc = "getDiff"
    /\ Returned([gitDiff EXCEPT !.stdout = IF ok THEN DiffText("lastSHA") ELSE << >>],
                "snaplog")
    /\ UNCHANGED <<fileStates, patterns, changeLog, logFails, disk, now, appended, nSaves,
                   timerService, intervals, pending, shown, nToggles>>

\* a fallback loop that does not try HEAD~0: while (commitsOffset > 0 && !success)
GitCommandSettlesAboveHead(ok) ==
    /\ gitDiff.pc = "loop"
    /\ LET g == IF ok
                THEN [gitDiff EXCEPT !.stdout = DiffText("HEAD~" \o ToString(gitDiff.commitsOffset)),
                                     !.success = TRUE,
                                     !.attempts = @ + 1]
                ELSE [gitDiff EXCEPT !.commitsOffset = @ - 1, !.attempts = @ + 1]
       IN  IF g.commitsOffset > 0 /\ ~g.success
           THEN /\ gitDiff' = g
                /\ Called(Ret("getDiffFromSnaplog", "", g.n, g.attempts, "awaiting", << >>))
           ELSE Returned(g, "fallback")
    /\ UNCHANGED <<fileStates, patterns, changeLog, logFails, disk, now, appended, nSaves,
                   timerService, intervals, pending, shown, nToggles>>

\* the git command of the fallback loop settles: its output ends the loop,
\* its failure lowers the offset; the loop goes on while
\* commitsOffset >= 0 && !success, and the call returns stdout after it
GitCommandSettles(ok) ==
    /\ gitDiff.pc = "loop"
    /\ LET g == IF ok
                THEN [gitDiff EXCEPT !.stdout = DiffText("HEAD~" \o ToString(gitDiff.commitsOffset)),
                                     !.success = TRUE,
                                     !.attempts = @ + 1]
                ELSE [gitDiff EXCEPT !.commitsOffset = @ - 1, !.attempts = @ + 1]
       IN  IF g.commitsOffset >= 0 /\ ~g.success
           THEN /\ gitDiff' = g
                /\ Called(Ret("getDiffFromSnaplog", "", g.n, g.attempts, "awaiting", << >>))
           ELSE Returned(g, "fallback")
    /\ UNCHANGED <<fileStates, patterns, changeLog, logFails, disk, now, appended, nSaves,
                   timerService, intervals, pending, shown, nToggles>>

----------------------------------------------------------------------------
(* The environment *)

\* the change log can no longer be read or written
BreakLog ==
    /\ ~logFails
    /\ logFails' = TRUE
    /\ Called(NoRet)
    /\ UNCHANGED <<extVars, fileStates, patterns, changeLog, disk, now, appended, nSaves>>

\* and can again
RepairLog ==
    /\ logFails
    /\ logFails' = FALSE
    /\ Called(NoRet)
    /\ UNCHANGED <<extVars, fileStates, patterns, changeLog, disk, now, appended, nSaves>>

\* the file is written: by a save of the editor's buffer or by another program
WriteFile(p, ls) ==
    /\ disk[p] # File(ls)
    /\ disk' = [disk EXCEPT ![p] = File(ls)]
    /\ Called(NoRet)
    /\ UNCHANGED <<extVars, fileStates, patterns, changeLog, logFails, now, appended, nSaves>>

DeleteFile(p) ==
    /\ disk[p] # Missing
    /\ disk' = [disk EXCEPT ![p] = Missing]
    /\ Called(NoRet)
    /\ UNCHANGED <<extVars, fileStates, patterns, changeLog, logFails, now, appended, nSaves>>

\* the file stays but can no longer be read
RevokeFile(p) ==
    /\ disk[p].state = "file"
    /\ disk' = [disk EXCEPT ![p] = Unreadable]
    /\ Called(NoRet)
    /\ UNCHANGED <<extVars, fileStates, patterns, changeLog, logFails, now, appended, nSaves>>

\* time passes
Tick(t) ==
    /\ t > now
    /\ now' = t
    /\ Called(NoRet)
    /\ UNCHANGED <<extVars, fileStates, patterns, changeLog, logFails, disk, appended, nSaves>>

----------------------------------------------------------------------------
(* The tracker on one edited file, with the geometry of stopTracking in     *)
(* full: contents of 20 and of 3 lines, edits at the top and at lines 10    *)
(* and 14, the file rewritten, deleted or locked between the calls.         *)

Contents == {Text(1, 20), Text(2, 3)}
Ranges == {<<0, 1>>, <<10, 10>>, <<14, 14>>}

Init ==
    /\ fileStates = << >>
    /\ patterns = getDefaultPatterns
    /\ changeLog = << >>
    /\ logFails = FALSE
    /\ \E ls \in Contents :
          disk = [p \in Paths |-> IF p = FileA THEN File(ls) ELSE Missing]
    /\ now = 0
    /\ ret = NoRet
    /\ prevStop = ""
    /\ appended = << >>
    /\ nSaves = 0
    /\ InitExt

Next ==
    \/ StartTracking(FileA)
    \/ \E r \in Ranges : RecordChange(FileA, r[1], r[2])
    \/ StopTracking(FileA, MaxSaves)
    \/ StopTrackingAll(MaxSaves)
    \/ \E ls \in Contents : WriteFile(FileA, ls)
    \/ DeleteFile(FileA)
    \/ RevokeFile(FileA)

Spec == Init /\ [][Next]_vars

----------------------------------------------------------------------------
(* The tracker behind the ignore filter: three files with one short content *)
(* each and one edit range, under the default rules, a rules file that      *)
(* ignores the TypeScript sources, and an empty rules file.                 *)

FilterPaths == {FileA, FileLog, FileTxt}
FilterLines == Text(3, 2)
PatternSets == {getDefaultPatterns, <<"*.log", "*.ts">>, << >>}

InitFilter ==
    /\ fileStates = << >>
    /\ patterns \in PatternSets
    /\ changeLog = << >>
    /\ logFails = FALSE
    /\ disk = [p \in Paths |-> IF p \in FilterPaths THEN File(FilterLines) ELSE Missing]
    /\ now = 0
    /\ ret = NoRet
    /\ prevStop = ""
    /\ appended = << >>
    /\ nSaves = 0
    /\ InitExt

NextFilter ==
    \/ \E p \in FilterPaths : StartTracking(p)
    \/ \E p \in FilterPaths : RecordChange(p, 0, 1)
    \/ \E p \in FilterPaths : StopTracking(p, FilterMaxSaves)
    \/ StopTrackingAll(FilterMaxSaves)

SpecFilter == InitFilter /\ [][NextFilter]_vars

----------------------------------------------------------------------------
(* The change log in full: logs left by earlier sessions, one of them longer *)
(* than the default read window, a clock that advances, window reads and    *)
(* pruning; one three-line file is edited at line 0.                        *)

\* a record an earlier session left in the log
PastRecord(startTime, endTime) ==
    [filePath |-> FileA, startTime |-> startTime, endTime |-> endTime,
     startLine |-> 0, endLine |-> 2,
     before |-> Text(1, 3), after |-> Text(2, 3), changedLines |-> <<0>>]

LongLog == [i \in 1..(DefaultLimit + 1) |-> Stringify(PastRecord(20 + (i \div 6), 20 + (i \div 6)))]

InitLogs ==
    { << >>,
      <<Stringify(PastRecord(5, 5)), GarbageLine, Stringify(PastRecord(9, 10)),
        Stringify(PastRecord(40, 40))>>,
      <<Stringify(PastRecord(40, 40)), Stringify(PastRecord(4, 5)), Stringify(PastRecord(39, 39))>>,
      LongLog }

LogTimes == {40, 41, 71}
Limits == (1..(LogMaxSaves + 1)) \cup {DefaultLimit}
DaysToKeep == {0, 1, DefaultDaysToKeep}

InitLog ==
    /\ fileStates = << >>
    /\ patterns = getDefaultPatterns
    /\ changeLog \in InitLogs
    /\ logFails = FALSE
    /\ disk = [p \in Paths |-> IF p = FileA THEN File(Text(2, 3)) ELSE Missing]
    /\ now = 40
    /\ ret = NoRet
    /\ prevStop = ""
    /\ appended = << >>
    /\ nSaves = 0
    /\ InitExt

NextLog ==
    \/ RecordChange(FileA, 0, 0)
    \/ StopTracking(FileA, LogMaxSaves)
    \/ \E limit \in Limits : GetRecentChanges(limit)
    \/ \E daysToKeep \in DaysToKeep : CleanupOldChanges(daysToKeep)
    \/ \E t \in LogTimes : Tick(t)

SpecLog == InitLog /\ [][NextLog]_vars

----------------------------------------------------------------------------
(* The resume pipeline over the change log: logs without a record (empty,   *)
(* blank, malformed) and a log of three records out of time order; the file *)
(* is edited and saved, the log breaks and recovers, the provider answers   *)
(* with plain JSON, fenced JSON, prose, or a rejection.                     *)

ResumeLogs ==
    { << >>,
      <<BlankLine>>,
      <<GarbageLine>>,
      <<Stringify(PastRecord(40, 40)), Stringify(PastRecord(4, 5)), Stringify(PastRecord(39, 39))>> }

Responses == Range(ResponseList)

ResumeLimits == {1, 2, DefaultLimit}
ResumeTimes == {41}

InitResume ==
    /\ fileStates = << >>
    /\ patterns = getDefaultPatterns
    /\ changeLog \in ResumeLogs
    /\ logFails = FALSE
    /\ disk = [p \in Paths |-> IF p = FileA THEN File(Text(2, 3)) ELSE Missing]
    /\ now = 40
    /\ ret = NoRet
    /\ prevStop = ""
    /\ appended = << >>
    /\ nSaves = 0
    /\ InitExt

NextResume ==
    \/ RecordChange(FileA, 0, 0)
    \/ StopTracking(FileA, ResumeMaxSaves)
    \/ \E limit \in ResumeLimits : GetFormattedRecentChanges(limit)
    \/ \E response \in Responses : EnhancedPromptForResume(response)
    \/ \E t \in ResumeTimes : Tick(t)
    \/ BreakLog
    \/ RepairLog

SpecResume == InitResume /\ [][NextResume]_vars

----------------------------------------------------------------------------
(* A session of the extension on two files: edit events, saves, the batch   *)
(* stop, the teardown and window reads, while a.ts is locked, b.ts is       *)
(* deleted, both are written again and the change log breaks and recovers.  *)

SessionPaths == {FileA, FileB}
SessionLines == Text(3, 2)
SessionLogs ==
    { << >>,
      <<Stringify(PastRecord(5, 5)), GarbageLine, Stringify(PastRecord(39, 39))>> }
SessionLimits == {1, DefaultLimit}

InitSession ==
    /\ fileStates = << >>
    /\ patterns = getDefaultPatterns
    /\ changeLog \in SessionLogs
    /\ logFails = FALSE
    /\ disk = [p \in Paths |-> IF p \in SessionPaths THEN File(SessionLines) ELSE Missing]
    /\ now = 40
    /\ ret = NoRet
    /\ prevStop = ""
    /\ appended = << >>
    /\ nSaves = 0
    /\ InitExt

NextSession ==
    \/ \E p \in SessionPaths : StartTracking(p)
    \/ \E p \in SessionPaths : RecordChange(p, 0, 1)
    \/ \E p \in SessionPaths : StopTracking(p, SessionMaxSaves)
    \/ StopTrackingAll(SessionMaxSaves)
    \/ Deactivate(SessionMaxSaves)
    \/ \E limit \in SessionLimits : GetRecentChanges(limit)
    \/ \E p \in SessionPaths : WriteFile(p, SessionLines)
    \/ DeleteFile(FileB)
    \/ RevokeFile(FileA)
    \/ BreakLog
    \/ RepairLog

SpecSession == InitSession /\ [][NextSession]_vars

----------------------------------------------------------------------------
(* The tracker on its own bookkeeping files: the change log and the session *)
(* log are open in the editor, which reports an edit event when such a file *)
(* changes; the rules file on disk holds the default rules, rules without   *)
(* the bookkeeping entries, or nothing.                                     *)

BookPaths == {FileChangelog, FileSnaplog}
BookTimes == {41}

InitBook ==
    /\ fileStates = << >>
    /\ patterns \in PatternSets
    /\ changeLog = << >>
    /\ logFails = FALSE
    /\ disk = [p \in Paths |->
                 IF p = FileChangelog THEN File(LogLines(<< >>))
                 ELSE IF p = FileSnaplog THEN File(Text(5, 2))
                 ELSE Missing]
    /\ now = 40
    /\ ret = NoRet
    /\ prevStop = ""
    /\ appended = << >>
    /\ nSaves = 0
    /\ InitExt

NextBook ==
    \/ \E p \in BookPaths : RecordChange(p, 0, 0)
    \/ \E p \in BookPaths : StopTracking(p, BookMaxSaves)
    \/ StopTrackingAll(BookMaxSaves)
    \/ \E t \in BookTimes : Tick(t)

SpecBook == InitBook /\ [][NextBook]_vars

----------------------------------------------------------------------------
(* The ignore filter on its own: it is built on a workspace whose rules     *)
(* file is absent, cannot be created, cannot be read, is the default one    *)
(* or was written by hand; patterns are added and removed, the rules are    *)
(* reloaded, and the rules file is written, deleted, locked meanwhile.      *)

\* A rules file written by hand
CustomRules ==
    << CommentLine("# project rules"), PaddedRuleLine("*.log"), WhiteLine,
       RuleLine("build\\out"), EmptyLine >>

RuleFiles == {getDefaultIgnoreFileContent, CustomRules}
PatternInputs == {"*.ts", "*.log", "build\\out", ".DS_Store"}

InitIgnore ==
    /\ \E f \in {Missing, Blocked, Unreadable} \cup {File(ls) : ls \in RuleFiles} :
          LET d0 == [p \in Paths |-> IF p = FileIgnore THEN f ELSE Missing]
              r  == loadIgnorePatterns(<< >>, d0)
          IN  /\ patterns = r.patterns
              /\ disk = r.disk
              /\ ret = Ret("load", FileIgnore, 0, 0, r.how, << >>)
    /\ fileStates = << >>
    /\ changeLog = << >>
    /\ logFails = FALSE
    /\ now = 0
    /\ prevStop = ""
    /\ appended = << >>
    /\ nSaves = 0
    /\ InitExt

NextIgnore ==
    \/ NewIgnorePatterns
    \/ Reload
    \/ \E g \in PatternInputs : AddPattern(g)
    \/ \E g \in PatternInputs : RemovePattern(g)
    \/ \E ls \in RuleFiles : WriteFile(FileIgnore, ls)
    \/ DeleteFile(FileIgnore)
    \/ RevokeFile(FileIgnore)
    \/ BlockFile(FileIgnore)

SpecIgnore == InitIgnore /\ [][NextIgnore]_vars

----------------------------------------------------------------------------
(* The timer on its own: start, stop, reset and destroy in any order while  *)
(* the clock advances and the event loop runs the scheduled interval.       *)

TimerTimes == {41, 42}

InitTimer ==
    /\ fileStates = << >>
    /\ patterns = getDefaultPatterns
    /\ changeLog = << >>
    /\ logFails = FALSE
    /\ disk = [p \in Paths |-> Missing]
    /\ now = 40
    /\ ret = NoRet
    /\ prevStop = ""
    /\ appended = << >>
    /\ nSaves = 0
    /\ InitExt

NextTimer ==
    \/ TimerStart
    \/ TimerStop
    \/ TimerReset
    \/ TimerDestroy
    \/ \E h \in intervals : IntervalFires(h)
    \/ \E t \in TimerTimes : Tick(t)

SpecTimer == InitTimer /\ [][NextTimer]_vars

----------------------------------------------------------------------------
(* The start/stop command: the user toggles the stopwatch and edits a.ts    *)
(* while resume requests and session saves are in flight; the provider      *)
(* answers or rejects, the session log is written, or cannot be because it  *)
(* is locked or its directory is read-only.                                  *)

StopwatchLogs == { << >>, <<Stringify(PastRecord(39, 39))>> }
StopwatchResponses == {ResponseList[1], ResponseList[2], ResponseList[3]}
StopwatchTimes == {41}

InitStopwatch ==
    /\ fileStates = << >>
    /\ patterns = getDefaultPatterns
    /\ changeLog \in StopwatchLogs
    /\ logFails = FALSE
    /\ disk = [p \in Paths |-> IF p = FileA THEN File(SessionLines) ELSE Missing]
    /\ now = 40
    /\ ret = NoRet
    /\ prevStop = ""
    /\ appended = << >>
    /\ nSaves = 0
    /\ InitExt

NextStopwatch ==
    \/ ToggleStopwatch(StopwatchMaxSaves, MaxToggles)
    \/ \E i \in 1..Len(pending), response \in StopwatchResponses : ResumeSettles(i, response)
    \/ \E i \in 1..Len(pending) : SaveSessionSettles(i)
    \/ RecordChange(FileA, 0, 1)
    \/ \E h \in intervals : IntervalFires(h)
    \/ BlockFile(FileSnaplog)
    \/ RevokeFile(FileSnaplog)
    \/ DeleteFile(FileSnaplog)
    \/ \E t \in StopwatchTimes : Tick(t)

SpecStopwatch == InitStopwatch /\ [][NextStopwatch]_vars

----------------------------------------------------------------------------
(* getDiffFromSnaplog on its own: the session log is absent, locked, empty,  *)
(* blank, ends with an entry that names a commit, with one that names none,  *)
(* or with a line that is not JSON; every git command succeeds or fails.     *)

GitOffsets == (0 - 1)..MaxOffset
GitSnaplogs ==
    { << >>, <<800>>, <<500>>, <<500, 800>>, <<500, 600>>, <<600, 700>> }

InitGit ==
    /\ fileStates = << >>
    /\ patterns = getDefaultPatterns
    /\ changeLog = << >>
    /\ logFails = FALSE
    /\ disk \in {[p \in Paths |-> IF p = FileSnaplog THEN f ELSE Missing] :
                   f \in {Missing, Unreadable} \cup {File(ls) : ls \in GitSnaplogs}}
    /\ now = 40
    /\ ret = NoRet
    /\ prevStop = ""
    /\ appended = << >>
    /\ nSaves = 0
    /\ InitExt

NextGit ==
    \/ \E n \in GitOffsets : GetDiffFromSnaplog(n)
    \/ \E ok \in BOOLEAN : GetDiffSettles(ok)
    \/ \E ok \in BOOLEAN : GitCommandSettles(ok)

SpecGit == InitGit /\ [][NextGit]_vars

\* a git command that was started settles: the child process exits, and exec
\* resolves or rejects its promise
SpecGitLive ==
    /\ InitGit /\ [][NextGit]_vars
    /\ WF_vars(\E ok \in BOOLEAN : GetDiffSettles(ok))
    /\ WF_vars(\E ok \in BOOLEAN : GitCommandSettles(ok))

----------------------------------------------------------------------------
(* Properties *)

\* the last call was stopTracking and it returned a summary
ReturnedSummary == ret.op = "stopTracking" /\ ret.val # << >>
\* that summary
TheSummary == ret.val[1]
\* the last valid line index of the content stopTracking read
LastLineIndex == Len(disk[ret.path].lines) - 1

\* C1: a summary returned by stopTracking covers the dirty range [a, b] of the
\* recorded edits as far as the current content reaches: startLine <= a,
\* endLine >= b or the last line index when the file ends before b, and both
\* bounds are valid line indices of the current content, whatever its length.
C1_CoversDirtyRange ==
    ReturnedSummary =>
        LET a == TheSummary.changedLines[1]
            b == TheSummary.changedLines[Len(TheSummary.changedLines)]
        IN  /\ TheSummary.startLine <= a
            /\ TheSummary.endLine >= Min2(b, LastLineIndex)
            /\ TheSummary.startLine \in 0..LastLineIndex
            /\ TheSummary.endLine \in 0..LastLineIndex

\* C2: every summary returned by stopTracking or appended to the change log has
\* 0 <= startLine <= endLine <= (lines of the current content) - 1.
C2_RangeWellFormed ==
    /\ ReturnedSummary =>
          /\ 0 <= TheSummary.startLine
          /\ TheSummary.startLine <= TheSummary.endLine
          /\ TheSummary.endLine <= LastLineIndex
    /\ \A i \in 1..Len(Records(changeLog)) :
          /\ 0 <= Records(changeLog)[i].startLine
          /\ Records(changeLog)[i].startLine <= Records(changeLog)[i].endLine

\* C3: cleanupOldChanges(days) removes from the log exactly the records with
\* endTime < now - days * 86400000 and keeps every other record, in order, for
\* a log of any length.
C3_PruneExact ==
    [][ret'.op = "cleanupOldChanges" =>
          Records(changeLog') =
            SelectSeq(Records(changeLog),
                      LAMBDA r : ~(r.endTime < now - ret'.lo * MsPerDay))]_vars

\* C4: a path that matches a loaded ignore pattern never has a dirty line in a
\* Live state, and recordChange on such a path leaves the live-state Map as it
\* was: no Live state created, no dirty line added.
MatchesLoadedPattern(p) == \E g \in Range(patterns) : Matches(p, g)

C4_IgnoredNeverDirty ==
    /\ [](\A p \in Paths :
            (MatchesLoadedPattern(p) /\ MapHas(fileStates, p))
                => MapGet(fileStates, p).dirtyLines = {})
    /\ [][(ret'.op = "recordChange" /\ MatchesLoadedPattern(ret'.path))
            => fileStates' = fileStates]_vars

\* an edit event on an ignored path that is Live (started explicitly) went by
C4_Witness ==
    /\ ret.op = "recordChange"
    /\ MatchesLoadedPattern(ret.path)
    /\ MapHas(fileStates, ret.path)

\* the last call was a recordChange that took the auto-start branch
AutoStarted == ret.op = "recordChange" /\ ret.had = "none"

\* C5 as stated: after a recordChange on a non-ignored path without Live state
\* the path is Live and its dirty set holds every line of the event's range.
C5_AutoStartAlways ==
    AutoStarted =>
        /\ MapHas(fileStates, ret.path)
        /\ (ret.lo..ret.hi) \subseteq MapGet(fileStates, ret.path).dirtyLines

\* C5 amended: after a recordChange on a non-ignored path without Live state
\* whose file exists and can be read, the path is Live with a state created by
\* this call (baseline = the file's content, timestamp = now) and its dirty set
\* is exactly the event's range.
C5_AutoStartReadable ==
    (AutoStarted /\ readable(disk, ret.path)) =>
        /\ MapHas(fileStates, ret.path)
        /\ MapGet(fileStates, ret.path).lines = disk[ret.path].lines
        /\ MapGet(fileStates, ret.path).timestamp = now
        /\ MapGet(fileStates, ret.path).dirtyLines = ret.lo..ret.hi

C5_Witness ==
    /\ AutoStarted
    /\ readable(disk, ret.path)
    /\ MapHas(fileStates, ret.path)
    /\ ret.hi > ret.lo

\* C6: stopTracking on a Live path with an empty dirty set returns null,
\* appends nothing to the log and leaves no Live state for the path.
C6_CleanStopIsNull ==
    [][(/\ ret'.op = "stopTracking"
        /\ MapHas(fileStates, ret'.path)
        /\ MapGet(fileStates, ret'.path).dirtyLines = {})
          => /\ ret'.val = << >>
             /\ changeLog' = changeLog
             /\ ~MapHas(fileStates', ret'.path)]_vars

\* stopTracking ran on a Live path without dirty lines whose file is there
C6_Witness ==
    /\ ret.op = "stopTracking"
    /\ ret.had = "clean"
    /\ readable(disk, ret.path)

\* C7: of two stopTracking calls in a row for the same path, the second
\* returns null, appends nothing and leaves the live-state Map unchanged.
C7_SecondStopIsNull ==
    [][(/\ ret.op = "stopTracking"
        /\ ret'.op = "stopTracking"
        /\ ret'.path = ret.path)
          => /\ ret'.val = << >>
             /\ changeLog' = changeLog
             /\ fileStates' = fileStates]_vars

\* a second stopTracking in a row, after a first that appended a record
C7_Witness ==
    /\ ret.op = "stopTracking"
    /\ prevStop = ret.path
    /\ Len(Records(changeLog)) > 0
    /\ Records(changeLog)[Len(Records(changeLog))].filePath = ret.path

\* C8: stopTracking on a Live path whose file was deleted returns null,
\* removes the Live state and appends nothing, whatever the dirty lines.
C8_DeletedFileStop ==
    [][(/\ ret'.op = "stopTracking"
        /\ MapHas(fileStates, ret'.path)
        /\ ~existsSync(disk, ret'.path))
          => /\ ret'.val = << >>
             /\ ~MapHas(fileStates', ret'.path)
             /\ changeLog' = changeLog]_vars

\* stopTracking ran on a Live path with dirty lines whose file is gone
C8_Witness ==
    /\ ret.op = "stopTracking"
    /\ ret.had = "dirty"
    /\ ~existsSync(disk, ret.path)

\* C9: with lines 10 and 14 dirty and a current content of 20 lines,
\* stopTracking returns startLine 8, endLine 16 and changedLines [10, 14].
C9_Scenario ==
    [][(/\ ret'.op = "stopTracking"
        /\ MapHas(fileStates, ret'.path)
        /\ MapGet(fileStates, ret'.path).dirtyLines = {10, 14}
        /\ readable(disk, ret'.path)
        /\ Len(disk[ret'.path].lines) = 20)
          => /\ ret'.val # << >>
             /\ ret'.val[1].startLine = 8
             /\ ret'.val[1].endLine = 16
             /\ ret'.val[1].changedLines = <<10, 14>>]_vars

C9_Witness ==
    /\ ReturnedSummary
    /\ TheSummary.changedLines = <<10, 14>>
    /\ Len(disk[ret.path].lines) = 20

C11_LastValidRecords ==
    ret.op = "getRecentChanges" =>
        LET valid == Records(changeLog)
            n == Min2(ret.lo, Len(valid))
        IN  ret.val = SubSeq(valid, Len(valid) - n + 1, Len(valid))

\* C12: getFormattedRecentChanges on a change log that holds no record
\* returns exactly "No recent changes found.", and a run of the resume
\* pipeline whose formatted changes are that string returns the fallback
\* payload (summary "No recent coding activity detected", no tasks, no file
\* relationships, one next step) without a generation request.
C12_EmptyWindowSentinel ==
    /\ (ret.op = "getFormattedRecentChanges" /\ Records(changeLog) = << >>)
          => ret.val = <<(<<Lit("No recent changes found.")>>)>>
    /\ (/\ ret.op = "enhancedPromptForResume"
        /\ getFormattedRecentChanges(changeLog, logFails, DefaultLimit, now)
             = <<Lit("No recent changes found.")>>)
          => /\ ret.lo = 0
             /\ ret.had = "fallback"
             /\ Len(ret.val) = 1
             /\ Len(ret.val[1]) = 1
             /\ ret.val[1][1].t = "json"
             /\ LET payload == ret.val[1][1].obj[1]
                IN  /\ payload.summary = "No recent coding activity detected"
                    /\ payload.tasks = << >>
                    /\ payload.fileRelationships = << >>
                    /\ Len(payload.nextSteps) = 1

\* the pipeline ran on an empty log while the provider would have answered
C12_Witness ==
    /\ ret.op = "enhancedPromptForResume"
    /\ changeLog = << >>
    /\ ret.had = "fallback"
    /\ ret.lo = 0

\* C13: when the append to the change log fails, stopTracking on a Live path
\* with dirty lines and a readable file still returns the computed summary
\* and removes the Live state; the failure does not surface (the log is as
\* it was, the call returns).
C13_PersistFailureStillReturns ==
    [][(/\ ret'.op = "stopTracking"
        /\ logFails
        /\ MapHas(fileStates, ret'.path)
        /\ MapGet(fileStates, ret'.path).dirtyLines # {}
        /\ readable(disk, ret'.path))
          => /\ ret'.val = <<ChangeSummaryOf(ret'.path, MapGet(fileStates, ret'.path),
                                            disk[ret'.path].lines, now)>>
             /\ ~MapHas(fileStates', ret'.path)
             /\ changeLog' = changeLog]_vars

\* stopTracking returned a summary while the log could not be written
C13_Witness ==
    /\ ret.op = "stopTracking"
    /\ logFails
    /\ ret.val # << >>
    /\ ~MapHas(fileStates, ret.path)

\* C14: stopTrackingAll stops every path of its snapshot, whatever the stops
\* before it returned, and returns the non-null results of the single stops
\* in snapshot order.
C14_BatchStopsAll ==
    [][ret'.op = "stopTrackingAll" =>
          LET filePaths == MapKeys(fileStates)
              each == [i \in 1..Len(filePaths) |->
                         stopTracking(fileStates, changeLog, logFails, disk, now,
                                      filePaths[i]).val]
          IN  /\ ret'.val = Flatten(each)
              /\ \A i \in 1..Len(filePaths) : ~MapHas(fileStates', filePaths[i])
              /\ Len(Records(changeLog')) - Len(Records(changeLog))
                   = IF logFails THEN 0 ELSE Len(ret'.val)]_vars

\* a batch over two Live paths of which one failed to stop (file deleted or
\* unreadable) and the other gave its summary
C14_Witness ==
    /\ ret.op = "stopTrackingAll"
    /\ ret.lo = 2
    /\ Len(ret.val) = 1
    /\ \E p \in SessionPaths : ~readable(disk, p) /\ ret.val[1].filePath # p

\* C15 as stated: every stopTracking that returns a summary appends exactly
\* that record at the end of the log and keeps the lines before it;
\* startTracking, recordChange, window reads and stops that return null
\* leave the log unchanged.
C15_AppendOnly ==
    [][/\ (ret'.op = "stopTracking" /\ ret'.val # << >>)
            => /\ Len(changeLog') = Len(changeLog) + 1
               /\ SubSeq(changeLog', 1, Len(changeLog)) = changeLog
               /\ Records(changeLog') = Append(Records(changeLog), ret'.val[1])
       /\ (\/ ret'.op \in {"startTracking", "recordChange", "getRecentChanges"}
           \/ (ret'.op = "stopTracking" /\ ret'.val = << >>))
            => changeLog' = changeLog]_vars

\* C15 amended: a stopTracking that returns a summary appends exactly that
\* record at the end of the log and keeps the lines before it, unless the
\* append fails, and then the log is unchanged; startTracking, recordChange,
\* window reads and stops that return null leave the log unchanged.
C15_AppendOnlyWhenWritable ==
    [][/\ (ret'.op = "stopTracking" /\ ret'.val # << >> /\ ~logFails)
            => /\ Len(changeLog') = Len(changeLog) + 1
               /\ SubSeq(changeLog', 1, Len(changeLog)) = changeLog
               /\ Records(changeLog') = Append(Records(changeLog), ret'.val[1])
       /\ (\/ ret'.op \in {"startTracking", "recordChange", "getRecentChanges"}
           \/ (ret'.op = "stopTracking" /\ (ret'.val = << >> \/ logFails)))
            => changeLog' = changeLog]_vars

\* a record was appended behind a log that holds a malformed line
C15_Witness ==
    /\ ret.op = "stopTracking"
    /\ ret.val # << >>
    /\ ~logFails
    /\ Len(changeLog) >= 4
    /\ changeLog[2] = GarbageLine
    /\ changeLog[Len(changeLog)] = Stringify(ret.val[1])

\* C16: a path has no or one Live state; a path becomes Live only in a
\* startTracking or recordChange call for it, and stops being Live only in a
\* stopTracking call for it (the save listener's included), in stopTrackingAll
\* or in the teardown that runs stopTrackingAll.
C16_UntrackedOrLive ==
    /\ [](\A i, j \in 1..Len(fileStates) :
             fileStates[i].path = fileStates[j].path => i = j)
    /\ [][\A p \in Paths :
             /\ (~MapHas(fileStates, p) /\ MapHas(fileStates', p))
                  => (ret'.op \in {"startTracking", "recordChange"} /\ ret'.path = p)
             /\ (MapHas(fileStates, p) /\ ~MapHas(fileStates', p))
                  => \/ (ret'.op = "stopTracking" /\ ret'.path = p)
                     \/ ret'.op \in {"stopTrackingAll", "deactivate"}]_vars

\* two paths are Live, the second call on a Live path being a startTracking
C16_Witness ==
    /\ Len(fileStates) = 2
    /\ ret.op = "startTracking"
    /\ prevStop = ""
    /\ \E i \in 1..2 : fileStates[i].dirtyLines # {}

C18_SaveStops ==
    [][ret'.op = "stopTracking" =>
          /\ ~MapHas(fileStates', ret'.path)
          /\ (/\ MapHas(fileStates, ret'.path)
              /\ MapGet(fileStates, ret'.path).dirtyLines # {}
              /\ existsSync(disk, ret'.path))
               => /\ Len(Records(changeLog')) = Len(Records(changeLog)) + 1
                  /\ Records(changeLog')[Len(Records(changeLog'))].filePath = ret'.path]_vars

\* C18 amended: after the save listener ran stopTracking(p), p is not Live;
\* when p was Live with dirty lines, the file can be read and the log can be
\* written, exactly one record, for p, was appended; in every other case the
\* log is as it was.
C18_SaveStopsReadable ==
    [][ret'.op = "stopTracking" =>
          /\ ~MapHas(fileStates', ret'.path)
          /\ IF /\ MapHas(fileStates, ret'.path)
                /\ MapGet(fileStates, ret'.path).dirtyLines # {}
                /\ readable(disk, ret'.path)
                /\ ~logFails
             THEN /\ Len(Records(changeLog')) = Len(Records(changeLog)) + 1
                  /\ Records(changeLog')[Len(Records(changeLog'))].filePath = ret'.path
             ELSE changeLog' = changeLog]_vars

\* a save of one of two Live paths: its record is in the log, the other
\* path is still Live
C18_Witness ==
    /\ ret.op = "stopTracking"
    /\ ret.had = "dirty"
    /\ ret.val # << >>
    /\ ~logFails
    /\ Len(fileStates) = 1
    /\ fileStates[1].path # ret.path
    /\ Records(changeLog)[Len(Records(changeLog))].filePath = ret.path

\* the dirty set of p in the Map m, empty when p has no Live state
DirtyOf(m, p) == IF MapHas(m, p) THEN MapGet(m, p).dirtyLines ELSE {}

\* C19: recording the same line range twice leaves the Map as recording it
\* once, and two edit events delivered in either order leave the same Map,
\* hence the same dirty set and the same summary at the next stop.
C19_EditsIdempotentAnyOrder ==
    /\ [](\A r1, r2 \in Ranges :
            LET rec(m, r) == recordChange(m, patterns, disk, now, FileA, r[1], r[2])
                m12 == rec(rec(fileStates, r1), r2)
                m21 == rec(rec(fileStates, r2), r1)
            IN  /\ rec(rec(fileStates, r1), r1) = rec(fileStates, r1)
                /\ DirtyOf(m12, FileA) = DirtyOf(m21, FileA)
                /\ stopTracking(m12, changeLog, logFails, disk, now, FileA).val
                     = stopTracking(m21, changeLog, logFails, disk, now, FileA).val)
    /\ [][(/\ ret.op = "recordChange"
           /\ ret'.op = "recordChange"
           /\ ret'.path = ret.path
           /\ ret'.lo = ret.lo
           /\ ret'.hi = ret.hi)
             => fileStates' = fileStates]_vars

\* two events with different ranges were recorded on a Live path
C19_Witness ==
    /\ ret.op = "recordChange"
    /\ ret.had = "dirty"
    /\ ret.lo = 14
    /\ DirtyOf(fileStates, ret.path) = {0, 1, 14}

\* C20: the changedLines of a summary are strictly ascending and are exactly
\* the lines of the events recorded since the Live state was created: a new
\* Live state starts with no dirty line, each recorded event adds exactly the
\* lines of its range, nothing else changes the dirty set of a Live path, and
\* stopTracking returns the dirty set, sorted.
C20_ChangedLinesAreTheEdits ==
    /\ [](ReturnedSummary =>
            \A i \in 1..(Len(TheSummary.changedLines) - 1) :
               TheSummary.changedLines[i] < TheSummary.changedLines[i + 1])
    /\ [][\A p \in Paths :
             /\ (ret'.op = "recordChange" /\ ret'.path = p /\ MapHas(fileStates', p))
                  => DirtyOf(fileStates', p)
                       = DirtyOf(fileStates, p)
                           \cup (IF ret'.had = "ignored" THEN {} ELSE ret'.lo..ret'.hi)
             /\ (ret'.op = "startTracking" /\ ret'.path = p /\ readable(disk, p))
                  => (MapHas(fileStates', p) /\ DirtyOf(fileStates', p) = {})
             /\ (/\ ~(ret'.op \in {"recordChange", "startTracking"} /\ ret'.path = p)
                 /\ MapHas(fileStates', p))
                  => (MapHas(fileStates, p) /\ DirtyOf(fileStates', p) = DirtyOf(fileStates, p))
             /\ (ret'.op = "stopTracking" /\ ret'.path = p /\ ret'.val # << >>)
                  => /\ Range(ret'.val[1].changedLines) = DirtyOf(fileStates, p)
                     /\ Len(ret'.val[1].changedLines) = Cardinality(DirtyOf(fileStates, p))]_vars

\* a summary of two events whose ranges are apart
C20_Witness ==
    /\ ReturnedSummary
    /\ TheSummary.changedLines = <<0, 1, 14>>

\* the lines of ls whose zero-based index lies in a..b, in order
LinesIn(ls, a, b) ==
    LET hi == Min2(b, Len(ls) - 1)
    IN  IF a > hi THEN << >> ELSE [k \in 1..(hi - a + 1) |-> ls[a + k]]

\* C21: in every summary, before holds the lines startLine..endLine of the
\* baseline (the content startTracking read, kept unchanged while the path is
\* Live) and after holds the same line range of the content read at the stop.
C21_BeforeAfterSections ==
    /\ []((ret.op = "startTracking" /\ readable(disk, ret.path))
            => MapGet(fileStates, ret.path).lines = disk[ret.path].lines)
    /\ [][\A p \in Paths :
             /\ (/\ MapHas(fileStates, p)
                 /\ MapHas(fileStates', p)
                 /\ ~(ret'.op = "startTracking" /\ ret'.path = p))
                  => MapGet(fileStates', p).lines = MapGet(fileStates, p).lines
             /\ (ret'.op = "stopTracking" /\ ret'.path = p /\ ret'.val # << >>)
                  => LET s == ret'.val[1]
                     IN  /\ s.before = LinesIn(MapGet(fileStates, p).lines,
                                               s.startLine, s.endLine)
                         /\ s.after = LinesIn(disk[p].lines, s.startLine, s.endLine)]_vars

\* a summary of a file that was rewritten while it was Live: both sections
\* hold lines and they differ
C21_Witness ==
    /\ ReturnedSummary
    /\ TheSummary.before # << >>
    /\ TheSummary.after # << >>
    /\ TheSummary.before # TheSummary.after
    /\ Len(TheSummary.before) # Len(TheSummary.after)

\* C22: whatever rules are loaded, the change log and the session log under
\* .snapflow never have a Live state and no record of the change log is about
\* one of them.
C22_BookkeepingNeverTracked ==
    \A p \in {FileChangelog, FileSnaplog} :
        /\ ~MapHas(fileStates, p)
        /\ \A i \in 1..Len(Records(changeLog)) : Records(changeLog)[i].filePath # p

\* C23: when the rules file was absent and the load has written it, the rule
\* set in memory is the set of patterns of the file just written, and a reload
\* that follows at once leaves the rule set as it was.
C23_BootstrapHeldIdentically ==
    /\ []((ret.op \in {"load", "reload"} /\ ret.had = "created" /\ readable(disk, FileIgnore))
            => Range(patterns) = Range(ParseRules(disk[FileIgnore].lines)))
    /\ [][(/\ ret.op \in {"load", "reload"} /\ ret.had = "created"
           /\ readable(disk, FileIgnore)
           /\ ret'.op = "reload")
            => Range(patterns') = Range(patterns)]_vars

\* C24: a load or reload that meets an I/O error (the rules file cannot be
\* read, or is absent and cannot be created) returns without throwing and
\* leaves the in-memory default patterns as the rule set.
C24_LoadFailureFallsBack ==
    (/\ ret.op \in {"load", "reload"}
     /\ \/ ret.had = "failed"
        \/ ret.had = "created" /\ ~readable(disk, FileIgnore))
        => /\ patterns = getDefaultPatterns
           /\ ret.had # "threw"

C24_Witness ==
    /\ ret.op = "reload"
    /\ ret.had = "failed"
    /\ disk[FileIgnore].state = "unreadable"
    /\ patterns = getDefaultPatterns

NoDuplicates(ps) == \A i, j \in 1..Len(ps) : ps[i] = ps[j] => i = j

\* C25: the rule set never holds a pattern twice, addPattern of a pattern
\* that is there changes nothing, and after removePattern(p) the normalized p
\* is not in the rule set.
C25_NoDuplicateRules ==
    /\ [](NoDuplicates(patterns))
    /\ [][(ret'.op = "addPattern" /\ ret'.had = "present") => patterns' = patterns]_vars
    /\ [][ret'.op = "removePattern" => ret'.path \notin Range(patterns')]_vars

Wrapped(response) ==
    /\ Len(response) >= 2
    /\ response[1] = FenceJson
    /\ \/ response[Len(response)] = Fence
       \/ /\ Len(response) >= 3
          /\ response[Len(response)] = Newline
          /\ response[Len(response) - 1] = Fence

\* C27: a response wrapped in a json fence is returned without the opening
\* fence line and without the closing fence line, everything between them
\* kept as it is, fences inside included; a response without a json fence is
\* returned unchanged.
C27_CleaningStripsFences ==
    (ret.op = "enhancedPromptForResume" /\ ret.had = "generated")
        => LET response == ResponseList[ret.hi]
               cleaned  == ret.val[1]
           IN  /\ Wrapped(response)
                    => \E open, close \in {<< >>, <<Newline>>} :
                          /\ response = <<FenceJson>> \o open \o cleaned \o <<Fence>> \o close
                          /\ open = << >> => (cleaned = << >> \/ cleaned[1] # Newline)
               /\ (\A i \in 1..Len(response) : response[i] # FenceJson)
                    => cleaned = response

C27_Witness ==
    /\ ret.op = "enhancedPromptForResume"
    /\ ret.had = "generated"
    /\ Wrapped(ResponseList[ret.hi])
    /\ \E i \in 1..Len(ret.val[1]) : ret.val[1][i] = FenceJson
    /\ \E i \in 1..Len(ret.val[1]) : ret.val[1][i] = Fence

\* C28: one run of the resume pipeline sends at most one generation request,
\* exactly one when the window of the change log is not empty; when that
\* request is rejected the run ends rejected, having sent that one request,
\* and returns nothing.
C28_GenerationNotRetried ==
    ret.op = "enhancedPromptForResume"
        => LET window == getRecentChanges(changeLog, logFails, DefaultLimit)
           IN  /\ ret.lo \in {0, 1}
               /\ window # << >> => ret.lo = 1
               /\ window = << >> => ret.lo = 0
               /\ (window # << >> /\ ResponseList[ret.hi] = Rejected)
                    => (ret.had = "threw" /\ ret.val = << >>)
               /\ ret.had = "threw"
                    => (ret.lo = 1 /\ ResponseList[ret.hi] = Rejected)

C28_Witness ==
    /\ ret.op = "enhancedPromptForResume"
    /\ ret.had = "threw"
    /\ ret.lo = 1
    /\ Len(getRecentChanges(changeLog, logFails, DefaultLimit)) = 3

\* C29: a run of the resume pipeline, whether it asks the provider or not
\* and whether the provider answers or rejects, leaves the lines of the
\* change log, and so its records, as they were; so does the rendering of
\* the window.
C29_PipelineReadsOnly ==
    [][ret'.op \in {"enhancedPromptForResume", "getFormattedRecentChanges"}
         => /\ changeLog' = changeLog
            /\ Records(changeLog') = Records(changeLog)]_vars

C29_Witness ==
    /\ ret.op = "enhancedPromptForResume"
    /\ ret.had = "threw"
    /\ Len(Records(changeLog)) = 3
    /\ disk[FileIgnore].state = "file"

\* the blocks of a rendered text
BlocksOf(text) == SelectSeq(text, LAMBDA piece : piece.t = "block")

\* the one-to-one assignments of n blocks to n records
Perms(n) == {f \in [1..n -> 1..n] : \A i, j \in 1..n : f[i] = f[j] => i = j}

\* C30: the text rendered for a window that is not empty has one block for
\* each record of the window (the last `limit` lines of the log that parse),
\* numbered from 1, each record rendered by exactly one block, and the
\* endTime of the records never grows from one block to the next.
C30_BlocksDescendByEndTime ==
    ret.op = "getFormattedRecentChanges"
        => LET window == getRecentChanges(changeLog, logFails, ret.lo)
               blocks == BlocksOf(ret.val[1])
               n      == Len(window)
           IN  n > 0
                 => /\ Len(blocks) = n
                    /\ \E f \in Perms(n) :
                          /\ \A k \in 1..n :
                                <<blocks[k]>> = FormatChange(window[f[k]], k, now)
                          /\ \A k \in 1..(n - 1) :
                                window[f[k + 1]].endTime <= window[f[k]].endTime

C30_Witness ==
    /\ ret.op = "getFormattedRecentChanges"
    /\ ret.lo = 2
    /\ Len(Records(changeLog)) > 2
    /\ LET window == getRecentChanges(changeLog, logFails, ret.lo)
           blocks == BlocksOf(ret.val[1])
       IN  /\ Len(window) = 2
           /\ window[1].endTime < window[2].endTime
           /\ Len(blocks) = 2
           /\ <<blocks[1]>> = FormatChange(window[2], 1, now)

\* C31: every summary that stopTracking builds has as startTime the
\* timestamp of the Live state it stops and as endTime the clock at the stop,
\* and its endTime is not before its startTime; so for every record appended
\* to the log.  The clock of the model never goes back.
C31_EndNotBeforeStart ==
    /\ [](\A i \in 1..Len(appended) : appended[i].endTime >= appended[i].startTime)
    /\ [](\A i \in 1..Len(fileStates) : fileStates[i].timestamp <= now)
    /\ [][(ret'.op = "stopTracking" /\ ret'.val # << >>)
            => /\ ret'.val[1].startTime = MapGet(fileStates, ret'.path).timestamp
               /\ ret'.val[1].endTime = now
               /\ ret'.val[1].endTime >= ret'.val[1].startTime]_vars

C31_Witness ==
    /\ ret.op = "stopTracking"
    /\ ret.val # << >>
    /\ ret.val[1].startTime = 40
    /\ ret.val[1].endTime = 71
    /\ appended # << >>

\* C32: startTracking of a path whose file is missing or cannot be read
\* returns without creating a Live state: the live-state Map, the change log,
\* the rules and the files are as before.  The same holds for a recordChange
\* that finds no Live state for such a path and tries to start one.
C32_StartOnMissingIsNoOp ==
    [][(/\ \/ ret'.op = "startTracking"
           \/ ret'.op = "recordChange" /\ ret'.had = "none"
        /\ ~readable(disk, ret'.path))
         => /\ fileStates' = fileStates
            /\ ~MapHas(fileStates', ret'.path) \/ MapHas(fileStates, ret'.path)
            /\ changeLog' = changeLog
            /\ patterns' = patterns
            /\ disk' = disk]_vars

C32_Witness ==
    /\ ret.op = "recordChange"
    /\ ret.had = "none"
    /\ disk[ret.path].state = "unreadable"
    /\ ~MapHas(fileStates, ret.path)
    /\ fileStates # << >>

\* C33: when stopTracking(p) has returned, whatever it found (no state, the
\* file deleted or unreadable, no dirty line, a summary that was appended or
\* one whose append failed), the Map has no Live state for p; when
\* stopTrackingAll has returned the Map is empty.
C33_StopLeavesNoLiveState ==
    /\ ret.op = "stopTracking" => ~MapHas(fileStates, ret.path)
    /\ ret.op = "stopTrackingAll" => fileStates = << >>

C33_Witness ==
    /\ ret.op = "stopTracking"
    /\ ret.had = "dirty"
    /\ ret.val # << >>
    /\ logFails
    /\ ~MapHas(fileStates, ret.path)
    /\ fileStates # << >>

\* C36: recordChange(p), startTracking(p) and stopTracking(p) leave every
\* other path as it was: a path q other than p is Live after the call exactly
\* when it was Live before, with the same baseline, timestamp and dirty set.
C36_FramedToPath ==
    [][ret'.op \in {"recordChange", "startTracking", "stopTracking"}
         => \A q \in Paths \ {ret'.path} :
               /\ MapHas(fileStates', q) <=> MapHas(fileStates, q)
               /\ MapHas(fileStates, q)
                    => MapGet(fileStates', q) = MapGet(fileStates, q)]_vars

C36_Witness ==
    /\ ret.op = "recordChange"
    /\ DirtyOf(fileStates, ret.path) = {0, 1}
    /\ \E q \in Paths \ {ret.path} :
          /\ MapHas(fileStates, q)
          /\ MapGet(fileStates, q).dirtyLines = {}
          /\ MapGet(fileStates, q).lines # << >>

\* C37: an edit event for a path that has no Live state, and so every edit
\* event that follows a stop of that path or a stopTrackingAll, creates a
\* Live state whose baseline is the file as it is on disk at that moment,
\* whose timestamp is the clock and whose dirty set holds the lines of that
\* event only; a stop at that point would report those lines and no others.
C37_FreshStateAfterFlush ==
    /\ [][(/\ ret'.op = "recordChange"
           /\ \/ ret.op = "stopTracking" /\ ret.path = ret'.path
              \/ ret.op = "stopTrackingAll")
            => ret'.had \in {"none", "ignored"}]_vars
    /\ [][(/\ ret'.op = "recordChange"
           /\ ret'.had = "none"
           /\ readable(disk, ret'.path))
            => LET st == MapGet(fileStates', ret'.path)
               IN  /\ MapHas(fileStates', ret'.path)
                   /\ st.lines = disk[ret'.path].lines
                   /\ st.timestamp = now
                   /\ st.dirtyLines = ret'.lo..ret'.hi
                   /\ ChangeSummaryOf(ret'.path, st, disk[ret'.path].lines, now).changedLines
                        = SortedSeq(ret'.lo..ret'.hi)]_vars

C37_Witness ==
    /\ ret.op = "recordChange"
    /\ ret.had = "none"
    /\ prevStop = ret.path
    /\ Len(appended) = 1
    /\ appended[1].changedLines = <<0, 1>>
    /\ DirtyOf(fileStates, ret.path) = {14}
    /\ MapGet(fileStates, ret.path).lines = disk[ret.path].lines

\* the call that led to the next state flushes path p
Flushes(p) ==
    \/ ret'.op = "stopTracking" /\ ret'.path = p
    \/ ret'.op \in {"stopTrackingAll", "deactivate"}

\* the flush that led to the next state put a record for p with exactly the
\* lines ls in the log, among the records it appended at its end
FlushRecorded(p, ls) ==
    LET flushed == ret'.val
        records == Records(changeLog')
    IN  /\ Len(records) >= Len(flushed)
        /\ SliceLast(records, Len(flushed)) = flushed
        /\ \E i \in 1..Len(flushed) :
              /\ flushed[i].filePath = p
              /\ flushed[i].changedLines = SortedSeq(ls)

\* C35 as stated: as long as a path is not flushed it stays Live and its
\* dirty set loses no line, whatever operation runs; and a flush of a Live
\* path with dirty lines whose file exists appends, when the log can be
\* written, a record for the path with exactly those lines.
C35_NoEditDropped ==
    /\ [][\A p \in Paths :
            (MapHas(fileStates, p) /\ ~Flushes(p))
              => /\ MapHas(fileStates', p)
                 /\ DirtyOf(fileStates, p) \subseteq DirtyOf(fileStates', p)]_vars
    /\ [][\A p \in Paths :
            (/\ Flushes(p)
             /\ DirtyOf(fileStates, p) # {}
             /\ existsSync(disk, p)
             /\ ~logFails)
              => FlushRecorded(p, DirtyOf(fileStates, p))]_vars

\* C35: as long as a path is neither flushed nor started again by an explicit
\* startTracking it stays Live and its dirty set loses no line (an explicit
\* startTracking of a Live path replaces its state by a fresh one without
\* dirty lines); and a flush of a Live path with dirty lines whose file
\* exists and can be read appends, when the log can be written, a record for
\* the path with exactly those lines.
C35_NoEditDroppedUnlessRestarted ==
    /\ [][\A p \in Paths :
            (/\ MapHas(fileStates, p)
             /\ ~Flushes(p)
             /\ ~(ret'.op = "startTracking" /\ ret'.path = p))
              => /\ MapHas(fileStates', p)
                 /\ DirtyOf(fileStates, p) \subseteq DirtyOf(fileStates', p)]_vars
    /\ [][\A p \in Paths :
            (/\ ret'.op = "startTracking" /\ ret'.path = p
             /\ readable(disk, p))
              => DirtyOf(fileStates', p) = {}]_vars
    /\ [][\A p \in Paths :
            (/\ Flushes(p)
             /\ DirtyOf(fileStates, p) # {}
             /\ readable(disk, p)
             /\ ~logFails)
              => FlushRecorded(p, DirtyOf(fileStates, p))]_vars

C35_Witness ==
    /\ ret.op = "stopTrackingAll"
    /\ ret.lo = 2
    /\ Len(ret.val) = 2
    /\ appended = ret.val
    /\ \A i \in 1..2 : ret.val[i].changedLines = <<0, 1>>
    /\ SliceLast(Records(changeLog), 2) = ret.val

\* the git commands a fallback from offset n runs when each of them fails
AllAttempts(n) == IF n >= 0 THEN n + 1 ELSE 0

\* C40: the commit-offset fallback of getDiffFromSnaplog terminates.  From
\* offset n it runs at most n + 1 git commands, at the offsets n, n - 1, ...
\* down to 0; it returns at the first command that succeeds, with the output
\* of that command; when each command fails it has run all n + 1 and returns
\* the empty text; a call always returns a text, and a loop that was entered
\* is left.
C40_FallbackTerminates ==
    /\ [](gitDiff.pc = "loop" =>
             /\ ~gitDiff.success
             /\ gitDiff.commitsOffset >= 0
             /\ gitDiff.attempts = gitDiff.n - gitDiff.commitsOffset
             /\ gitDiff.attempts < AllAttempts(gitDiff.n))
    /\ [](ret.op = "getDiffFromSnaplog" /\ ret.had = "fallback" =>
             /\ gitDiff.pc = "done"
             /\ ret.hi <= AllAttempts(ret.lo)
             /\ IF gitDiff.success
                THEN ret.val = <<DiffText("HEAD~" \o ToString(ret.lo - ret.hi + 1))>>
                ELSE ret.hi = AllAttempts(ret.lo) /\ ret.val = << << >> >>)
    /\ [](ret.op = "getDiffFromSnaplog" /\ ret.had # "awaiting" => Len(ret.val) = 1)
    /\ (gitDiff.pc = "loop" ~> gitDiff.pc = "done")

\* each of the four commands of a fallback from offset 3 failed
C40_Witness ==
    /\ ret.op = "getDiffFromSnaplog" /\ ret.had = "fallback"
    /\ ret.lo = 3 /\ ret.hi = 4 /\ ret.val = << << >> >>
    /\ gitDiff.pc = "done" /\ gitDiff.commitsOffset = 0 - 1

\* the handles the timer holds: none or one
HeldIntervals == {timerService.interval[i] : i \in 1..Len(timerService.interval)}

\* C38: the timer is running exactly when one tick interval is scheduled.
\* After any sequence of start, stop, reset and destroy at most one interval
\* is scheduled, and it is the one whose handle the timer holds; start() on a
\* running timer and stop() on a stopped one change nothing; the tick callback
\* runs only while the timer runs, so elapsedSeconds is not updated by a tick
\* after stop() returned: it changes by a tick of the running timer or by
\* reset() only.
C38_RunningIffOneInterval ==
    /\ [](/\ Cardinality(intervals) <= 1
          /\ (timerService.isRunning <=> Cardinality(intervals) = 1)
          /\ intervals = HeldIntervals)
    /\ [][/\ (ret'.op = "start" /\ timerService.isRunning =>
                  timerService' = timerService /\ intervals' = intervals)
          /\ (ret'.op = "stop" /\ ~timerService.isRunning =>
                  timerService' = timerService /\ intervals' = intervals)
          /\ (ret'.op = "tick" => timerService.isRunning)
          /\ (timerService'.elapsedSeconds # timerService.elapsedSeconds =>
                  ret'.op \in {"tick", "reset"})]_vars

\* start() was called on a timer that had been running for a day
C38_Witness ==
    /\ ret.op = "start" /\ ret.had = "running"
    /\ timerService.isRunning
    /\ Cardinality(intervals) = 1
    /\ timerService.elapsedSeconds = SecondsPerDay

\* the suspended resume requests, oldest first
PendingResumes(ps) == SelectSeq(ps, LAMBDA task : task.kind = "resume")

\* C34: stopStopwatch always stops the timer and flushes every Live state
\* through stopTrackingAll, whether or not the session save that follows
\* succeeds.  When the stop command returns to the event loop the timer is
\* inactive, no interval is scheduled, the live-state map is empty and the
\* summaries are those of stopTrackingAll; a failing saveSession is caught
\* (the command ends normally, with the warning), and it changes neither the
\* timer nor the map nor the change log, so right after the stop they are
\* still inactive and empty.
C34_StopAlwaysStopsAndFlushes ==
    [][/\ (ret'.op = "toggle" /\ ret'.had = "stop" =>
              /\ ~timerService'.isRunning
              /\ intervals' = {}
              /\ fileStates' = << >>
              /\ ret'.val = stopTrackingAll(fileStates, changeLog, logFails, disk, now).val
              /\ changeLog' = stopTrackingAll(fileStates, changeLog, logFails, disk, now).log)
       /\ (ret'.op = "saveSession" /\ ret'.had = "failed" =>
              /\ ret'.val = <<"resolved">>
              /\ shown'.message = SaveFailedMessage
              /\ timerService' = timerService
              /\ intervals' = intervals
              /\ fileStates' = fileStates
              /\ changeLog' = changeLog)
       /\ (ret.op = "toggle" /\ ret.had = "stop" /\ ret'.op = "saveSession" =>
              ~timerService'.isRunning /\ fileStates' = << >>)]_vars

\* the save that followed a stop with one dirty file failed
C34_Witness ==
    /\ ret.op = "saveSession" /\ ret.had = "failed"
    /\ shown.message = SaveFailedMessage
    /\ ~timerService.isRunning
    /\ fileStates = << >>
    /\ nSaves = 1
    /\ nToggles = 2

\* C39: two toggle commands back to back, the second while the resume
\* request of the first is in flight, run one start followed by one stop.
\* startStopwatch marks the timer active before it suspends, so a toggle
\* that follows a start takes the stop branch and leaves the timer stopped;
\* a start is only taken on a stopped timer, so no second interval is ever
\* scheduled; the stop leaves the resume request pending, and when it
\* settles its result (or the error message, when it was rejected) is
\* displayed, whatever the timer does by then.
C39_BackToBackToggles ==
    /\ [](Cardinality(intervals) <= 1)
    /\ [][/\ (ret'.op = "toggle" /\ ret'.had = "start" =>
                  ~timerService.isRunning /\ timerService'.isRunning)
          /\ (ret.op = "toggle" /\ ret.had = "start" /\ ret'.op = "toggle" =>
                  /\ ret'.had = "stop"
                  /\ ~timerService'.isRunning
                  /\ intervals' = {}
                  /\ PendingResumes(pending') = PendingResumes(pending))
          /\ (ret'.op = "resume" =>
                  /\ Len(PendingResumes(pending')) = Len(PendingResumes(pending)) - 1
                  /\ shown'.response =
                        IF ResponseList[ret'.hi] = Rejected
                        THEN <<<<Lit(ResumeFailedMessage)>>>>
                        ELSE <<CleanResponse(ResponseList[ret'.hi])>>)]_vars

\* after a start and the stop that followed it while the request was pending,
\* the resume of the start is displayed
C39_Witness ==
    /\ ret.op = "resume" /\ ret.had = "generated"
    /\ nToggles = 2
    /\ ~timerService.isRunning
    /\ shown.response = <<CleanResponse(ResponseList[3])>>

====
